---------------------------- MODULE Spec2Model ----------------------------
(***************************************************************************)
(* Model of the RPC session layer of neophyte (src/src/neovim.rs).         *)
(*                                                                         *)
(* A message is identified by its kind and msgid; the payload (method,    *)
(* params, result) plays no part in any decision of the session code, so   *)
(* only the one payload bit the reader looks at (error /= Nil) is kept.    *)
(***************************************************************************)
EXTENDS Integers, Sequences, FiniteSets, Bags, TLC

\* ------------------------------------------------------------------ bounds
\* msgids the remote may put in an inbound Request and the application may
\* put in an outbound Response
MaxMsgId == 3
\* number of Incoming::push_request calls in one run
MaxRequests == 3
\* number of Incoming::push_response calls in one run
MaxResponses == 3

\* threads that call Neovim::call on clones of the handle
NumCallers == 2
\* number of Neovim::call invocations in one run
MaxCalls == 2
\* number of messages the reader thread decodes in one run
MaxInbound == 2
\* number of cells in the cell list of a grid_line notification
MaxCells == 2
\* number of key-value pairs in an attribute or info map of a hl_attr_define entry
MaxPairs == 2
\* number of entries of a hl_attr_define event whose order is varied
MaxEntries == 2
\* number of batches sent on the event channel in one run
MaxBatches == 2
\* number of events in a batch
MaxBatchLen == 2
\* bits of the integers that stand for i32 in ScrollingGrids (32 in the code)
IntWidth == 4
\* rows of a grid handed to ScrollingGrids (grid.size.y, a u16 in the code)
MaxHeight == 2
\* number of GridContents handed to one ScrollingGrids in one run
MaxGrids == 3
\* number of Ui values the update thread of State receives in one run
MaxUpdates == 2
\* number of glyphs appended to the font cache in one run
MaxGlyphs == 3
\* mpsc::channel::<Vec<Event>>(32) in async_main
EventChannelCapacity == 32
\* struct Cell has three fields: text, hl_id, repeat
NumCellFields == 3

MsgIds == 1..MaxMsgId
Callers == 1..NumCallers
\* msgids of inbound Response messages: issued by call (below next_msgid) or not
ReplyIds == 0..MaxCalls

\* ------------------------------------------------------------------- state
VARIABLES
    requests,     \* Incoming.requests : Vec<u64>, the pending stack (top = last)
    responses,    \* Incoming.responses : BinaryHeap<QueuedResponse>, as a bag of msgids
    queue,        \* messages sent on tx and not yet received by the writer
    sent,         \* history: every message tx.send accepted, in order
    rxAlive,      \* the Receiver of the mpsc channel has not been dropped
    txAlive,      \* some clone of the Neovim handle, and so a Sender, still exists
    poisoned,     \* the RwLock around Incoming is poisoned (a holder panicked)
    stdin,        \* messages the writer thread has encoded onto the child's stdin
    writerPc,     \* StdinThread::start: "running" or "exited"
    next_msgid,   \* Neovim.next_msgid : Mutex<u64>
    callPc,       \* per caller, where it is in Neovim::call: "idle" or "send"
    callId,       \* per caller, the local msgid of the call in progress
    readerPc,     \* StdoutThread::start: "decode", "handle_request", "exited", "panicked"
    lastRead,     \* the message (or decode failure) the reader decoded last
    decoded,      \* number of messages the reader has decoded
    handled,      \* number of calls of each StdoutHandler method
    log,          \* number of log::error and log::info calls
    drawn,        \* history: msgids drawn from the counter, in draw order
    returned,     \* history: the msgid each call returned and its thread, in return order
    registered,   \* history: msgids given to push_request, in call order
    arrived,      \* history: bag of msgids given to push_response
    lateReg,      \* history: some push_request was called after a push_response
    inOrder,      \* history: every call so far kept the protocol discipline
    unmatched,    \* history: msgids given to push_response while not on the stack
    lastOp,       \* history: the last call on Incoming, its argument and what it sent
    params,       \* the parameter value of the notification handed to an event parser
    parsed,       \* whether the parser has been called, and what it returned
    eventChannel, \* the batches in the channel of async_main, oldest first
    eventTx,      \* whether a sender of the event channel is alive
    events,       \* the consumer task: what is left of the batch it iterates over
    uiTask,       \* the consumer task: "running", "finished" or "dropped"
    batchesSent,  \* history: the batches sent on the event channel, in send order
    processed,    \* history: the events given to Ui::process, in call order
    lockHolder,   \* the thread that holds the write lock on Incoming, None when free
    sendPc,       \* per thread, where it is in send_response: "idle", "push", "loop"
    sendId,       \* per thread, the msgid of the response it is sending
    sendCall,     \* per thread, the number of the send_response call it is in
    pushId,       \* the msgid the reader is about to push, None when it holds no lock
    opLog,        \* history: the inserts, emissions and pushes on Incoming, in order
    scrolling,    \* ScrollingGrids::scrolling: the grid parts, front first
    scrollT,      \* ScrollingGrids::t, in whole rows
    overflowChecks, \* the build panics on integer overflow (debug) or wraps (release)
    scrollOp,     \* history: the last call on ScrollingGrids, its arguments and the queue before it
    gridsMade,    \* history: number of GridContents handed to ScrollingGrids so far
    mutex,        \* State: for each Mutex the thread holding its guard, "free" when none
    vertex_buffer, \* State::vertex_buffer: the update_text call that made the buffer
    grid_render,  \* State::grid_render: None, or the update_text call that made it
    vertex_count, \* State::vertex_count: the update_text call that stored it
    clear_color,  \* State::clear_color: the update_text call that stored it
    updatePc,     \* the update thread: "recv" or the statement of update_text it is at
    updateCall,   \* the number of the update_text call the update thread is in
    renderPc,     \* State::render: "idle" or the statement it is at
    frame,        \* what render has read so far, and after "draw" what it drew with
    font_cache,   \* StateFontWrite::font_cache: the data and info vectors
    textures,     \* StateFontWrite::textures
    next_glyph_to_upload, \* StateFontWrite::next_glyph_to_upload
    uploads,      \* history: for each get_read that uploaded, the cache indices it gave to Texture::new
    fontRead      \* the outcome of the last get_read

incomingVars == <<requests, responses, poisoned, registered, arrived, lateReg,
                  inOrder, unmatched, lastOp>>
channelVars == <<queue, sent, rxAlive, txAlive>>
writerVars == <<stdin, writerPc>>
callVars == <<next_msgid, callPc, callId, drawn, returned>>
readerVars == <<readerPc, lastRead, decoded, handled>>

uiVars == <<eventChannel, eventTx, events, uiTask, batchesSent, processed>>
lockVars == <<lockHolder, sendPc, sendId, sendCall, pushId, opLog>>
scrollVars == <<scrolling, scrollT, overflowChecks, scrollOp, gridsMade>>
stateVars == <<mutex, vertex_buffer, grid_render, vertex_count, clear_color,
               updatePc, updateCall, renderPc, frame>>
fontVars == <<font_cache, textures, next_glyph_to_upload, uploads, fontRead>>
renderVars == <<scrollVars, stateVars, fontVars>>
eventVars == <<params, parsed, uiVars, lockVars, renderVars>>

vars == <<incomingVars, channelVars, writerVars, callVars, readerVars, log,
          eventVars>>

\* ---------------------------------------------------------------- messages
Request(m) == [kind |-> "Request", msgid |-> m]
Response(m) == [kind |-> "Response", msgid |-> m]

None == [some |-> FALSE]
Some(x) == [some |-> TRUE, val |-> x]

RECURSIVE SeqMap(_, _)
SeqMap(Op(_), s) == IF s = <<>> THEN <<>> ELSE <<Op(Head(s))>> \o SeqMap(Op, Tail(s))

\* ------------------------------------------------------------------ values
\* rmpv Value, the variants the event parsers look at
Nil == [t |-> "Nil"]
Integer(n) == [t |-> "Int", n |-> n]
String(str) == [t |-> "Str", s |-> str]
Array(elems) == [t |-> "Arr", a |-> elems]
Boolean(b) == [t |-> "Bool", b |-> b]
\* a map Value: its key-value pairs in the order of the message
Map(pairs) == [t |-> "Map", m |-> pairs]

\* Result
Ok(x) == [ok |-> TRUE, val |-> x]
Err(e) == [ok |-> FALSE, err |-> e]

\* conversions of one Value to the type of a field (event/util.rs)
ParseValue(value) == Some(value)
ParseU64(value) == IF value.t = "Int" /\ value.n >= 0 THEN Some(value.n) ELSE None
ParseString(value) == IF value.t = "Str" THEN Some(value.s) ELSE None

\* ValueIter::new: an iterator over the elements of an array Value
ValueIterNew(value) == IF value.t = "Arr" THEN Some(value.a) ELSE None

\* ValueIter::next: take the next element off the iterator and convert it to
\* the type asked for (a Value, a u64, a String); None when there is none
\* left or it does not convert
ValueIterNextValue(iter) ==
    IF iter = <<>>
    THEN [out |-> None, iter |-> <<>>]
    ELSE [out |-> ParseValue(Head(iter)), iter |-> Tail(iter)]
ValueIterNextU64(iter) ==
    IF iter = <<>>
    THEN [out |-> None, iter |-> <<>>]
    ELSE [out |-> ParseU64(Head(iter)), iter |-> Tail(iter)]
ValueIterNextString(iter) ==
    IF iter = <<>>
    THEN [out |-> None, iter |-> <<>>]
    ELSE [out |-> ParseString(Head(iter)), iter |-> Tail(iter)]

\* ---------------------------------------------------------------- GridLine
\* Cell::parse: text: iter.next()?, hl_id: iter.next(), repeat: iter.next()
CellParseSwapped(value) ==
    LET iter == ValueIterNew(value)
    IN IF ~iter.some THEN None
       ELSE LET text == ValueIterNextString(iter.val)
                hl_id == ValueIterNextU64(text.iter)
                repeat == ValueIterNextU64(hl_id.iter)
            IN IF ~text.out.some THEN None
               ELSE Some([text |-> text.out.val,
                          hl_id |-> repeat.out,
                          repeat |-> hl_id.out])

CellParseDefaultText(value) ==
    LET iter == ValueIterNew(value)
    IN IF ~iter.some THEN None
       ELSE LET text == ValueIterNextString(iter.val)
                hl_id == ValueIterNextU64(text.iter)
                repeat == ValueIterNextU64(hl_id.iter)
            IN Some([text |-> IF text.out.some THEN text.out.val ELSE "",
                     hl_id |-> hl_id.out,
                     repeat |-> repeat.out])

CellParse(value) ==
    LET iter == ValueIterNew(value)
    IN IF ~iter.some THEN None
       ELSE LET text == ValueIterNextString(iter.val)
                hl_id == ValueIterNextU64(text.iter)
                repeat == ValueIterNextU64(hl_id.iter)
            IN IF ~text.out.some THEN None
               ELSE Some([text |-> text.out.val,
                          hl_id |-> hl_id.out,
                          repeat |-> repeat.out])

\* map_array(value, Cell::parse): every element of an array Value through
\* Cell::parse, None if the Value is no array or some element fails
MapArrayCells(value) ==
    IF value.t # "Arr" THEN None
    ELSE LET r == [i \in 1..Len(value.a) |-> CellParse(value.a[i])]
         IN IF \E i \in 1..Len(value.a) : ~r[i].some
            THEN None
            ELSE Some([i \in 1..Len(value.a) |-> r[i].val])

\* GridLine::parse: grid, row, col_start: iter.next()?,
\* cells: map_array(iter.next()?, Cell::parse)?
GridLineParse(value) ==
    LET iter == ValueIterNew(value)
    IN IF ~iter.some THEN None
       ELSE LET grid == ValueIterNextU64(iter.val)
                row == ValueIterNextU64(grid.iter)
                col_start == ValueIterNextU64(row.iter)
                next == ValueIterNextValue(col_start.iter)
            IN IF ~grid.out.some \/ ~row.out.some \/ ~col_start.out.some
                  \/ ~next.out.some
               THEN None
               ELSE LET cells == MapArrayCells(next.out.val)
                    IN IF ~cells.some THEN None
                       ELSE Some([grid |-> grid.out.val,
                                  row |-> row.out.val,
                                  col_start |-> col_start.out.val,
                                  cells |-> cells.val])

\* ------------------------------------------------------------- HlAttrDefine
\* parse_bool, parse_array, parse_map (event/util.rs)
ParseBool(value) == IF value.t = "Bool" THEN Some(value.b) ELSE None
ParseArray(value) == IF value.t = "Arr" THEN Some(value.a) ELSE None
ParseMap(value) == IF value.t = "Map" THEN Some(value.m) ELSE None

\* the fields of struct Attributes, by the type of their value
AttributeU64Keys == {"foreground", "background", "special", "blend"}
AttributeBoolKeys ==
    {"reverse", "italic", "bold", "strikethrough", "underline", "undercurl",
     "underdouble", "underdotted", "underdashed", "altfont"}
AttributeKeys == AttributeU64Keys \cup AttributeBoolKeys
\* Attributes::default()
AttributesDefault == [k \in AttributeKeys |-> None]

\* the for loop of the closure in Attributes::try_from: a key that is no
\* string or a value of the wrong type under a known key ends it with None,
\* an unknown key is printed and skipped
RECURSIVE AttributesInnerStrict(_, _)
AttributesInnerStrict(pairs, out) ==
    IF pairs = <<>> THEN Some(out)
    ELSE LET k == ParseString(Head(pairs)[1])
             v == Head(pairs)[2]
         IN IF ~k.some THEN None
            ELSE IF k.val \in AttributeU64Keys
            THEN IF ParseU64(v).some
                 THEN AttributesInnerStrict(Tail(pairs),
                                            [out EXCEPT ![k.val] = Some(ParseU64(v).val)])
                 ELSE None
            ELSE IF k.val \in AttributeBoolKeys
            THEN IF ParseBool(v).some
                 THEN AttributesInnerStrict(Tail(pairs),
                                            [out EXCEPT ![k.val] = Some(ParseBool(v).val)])
                 ELSE None
            ELSE None

RECURSIVE AttributesInner(_, _)
AttributesInner(pairs, out) ==
    IF pairs = <<>> THEN Some(out)
    ELSE LET k == ParseString(Head(pairs)[1])
             v == Head(pairs)[2]
         IN IF ~k.some THEN None
            ELSE IF k.val \in AttributeU64Keys
            THEN IF ParseU64(v).some
                 THEN AttributesInner(Tail(pairs),
                                      [out EXCEPT ![k.val] = Some(ParseU64(v).val)])
                 ELSE None
            ELSE IF k.val \in AttributeBoolKeys
            THEN IF ParseBool(v).some
                 THEN AttributesInner(Tail(pairs),
                                      [out EXCEPT ![k.val] = Some(ParseBool(v).val)])
                 ELSE None
            ELSE AttributesInner(Tail(pairs), out)

\* Attributes::try_from
AttributesTryFrom(value) ==
    LET map == ParseMap(value)
    IN IF ~map.some THEN Err("Attributes")
       ELSE LET inner == AttributesInner(map.val, AttributesDefault)
            IN IF inner.some THEN Ok(inner.val) ELSE Err("Attributes")

\* Kind::try_from
KindTryFromAsInfoError(value) ==
    LET str == ParseString(value)
    IN IF ~str.some THEN Err("Info")
       ELSE IF str.val = "ui" THEN Ok("Ui")
       ELSE IF str.val = "syntax" THEN Ok("Syntax")
       ELSE IF str.val = "terminal" THEN Ok("Terminal")
       ELSE Err("Info")

KindTryFrom(value) ==
    LET str == ParseString(value)
    IN IF ~str.some THEN Err("Kind")
       ELSE IF str.val = "ui" THEN Ok("Ui")
       ELSE IF str.val = "syntax" THEN Ok("Syntax")
       ELSE IF str.val = "terminal" THEN Ok("Terminal")
       ELSE Err("Kind")

\* the for loop of Info::try_from over the pairs of the map; acc holds the
\* locals kind, ui_name, hi_name, id
RECURSIVE InfoLoop(_, _)
InfoLoop(pairs, acc) ==
    IF pairs = <<>> THEN Ok(acc)
    ELSE LET k == ParseString(Head(pairs)[1])
             v == Head(pairs)[2]
         IN IF ~k.some THEN Err("Info")
            ELSE IF k.val = "kind"
            THEN IF KindTryFrom(v).ok
                 THEN InfoLoop(Tail(pairs), [acc EXCEPT !.kind = Some(KindTryFrom(v).val)])
                 ELSE KindTryFrom(v)
            ELSE IF k.val \in {"ui_name", "hi_name"}
            THEN IF ParseString(v).some
                 THEN InfoLoop(Tail(pairs), [acc EXCEPT ![k.val] = Some(ParseString(v).val)])
                 ELSE Err("Info")
            ELSE IF k.val = "id"
            THEN IF ParseU64(v).some
                 THEN InfoLoop(Tail(pairs), [acc EXCEPT !.id = Some(ParseU64(v).val)])
                 ELSE Err("Info")
            ELSE InfoLoop(Tail(pairs), acc)

\* an info without kind gets the kind Ui
InfoTryFromDefaultKind(value) ==
    LET map == ParseMap(value)
    IN IF ~map.some THEN Err("Info")
       ELSE LET loop == InfoLoop(map.val, [kind |-> None, ui_name |-> None,
                                           hi_name |-> None, id |-> None])
            IN IF ~loop.ok THEN loop
               ELSE Ok([kind |-> IF loop.val.kind.some THEN loop.val.kind.val ELSE "Ui",
                        ui_name |-> loop.val.ui_name,
                        hi_name |-> loop.val.hi_name,
                        id |-> loop.val.id])

\* Info::try_from
InfoTryFrom(value) ==
    LET map == ParseMap(value)
    IN IF ~map.some THEN Err("Info")
       ELSE LET loop == InfoLoop(map.val, [kind |-> None, ui_name |-> None,
                                           hi_name |-> None, id |-> None])
            IN IF ~loop.ok THEN loop
               ELSE IF ~loop.val.kind.some THEN Err("Info")
               ELSE Ok([kind |-> loop.val.kind.val,
                        ui_name |-> loop.val.ui_name,
                        hi_name |-> loop.val.hi_name,
                        id |-> loop.val.id])

\* Iterator::collect into Result<Vec<_>, _>: the first Err in order, else
\* every value in order
CollectKeepsOk(results) ==
    Ok(SeqMap(LAMBDA r : r.val, SelectSeq(results, LAMBDA r : r.ok)))
Collect(results) ==
    IF \E i \in 1..Len(results) : ~results[i].ok
    THEN results[CHOOSE i \in 1..Len(results) :
                    /\ ~results[i].ok
                    /\ \A j \in 1..(i - 1) : results[j].ok]
    ELSE Ok([i \in 1..Len(results) |-> results[i].val])

\* the info list is decoded before the attribute maps
HlAttrTryFromInfoFirst(value) ==
    LET array == ParseArray(value)
    IN IF ~array.some THEN Err("HlAttr")
       ELSE LET a == array.val
            IN IF Len(a) < 1 THEN Err("HlAttr")
               ELSE IF ~ParseU64(a[1]).some THEN Err("HlAttr")
               ELSE IF Len(a) < 4 THEN Err("HlAttr")
               ELSE IF ~ParseArray(a[4]).some THEN Err("HlAttr")
               ELSE LET infos == ParseArray(a[4]).val
                        info == Collect([i \in 1..Len(infos) |-> InfoTryFrom(infos[i])])
                    IN IF ~info.ok THEN info
                       ELSE IF ~AttributesTryFrom(a[2]).ok THEN AttributesTryFrom(a[2])
                       ELSE IF ~AttributesTryFrom(a[3]).ok THEN AttributesTryFrom(a[3])
                       ELSE Ok([id |-> ParseU64(a[1]).val,
                                rgb_attr |-> AttributesTryFrom(a[2]).val,
                                cterm_attr |-> AttributesTryFrom(a[3]).val,
                                info |-> info.val])

\* HlAttr::try_from: the fields in the order id, rgb_attr, cterm_attr, info,
\* each taking the next element of the array
HlAttrTryFrom(value) ==
    LET array == ParseArray(value)
    IN IF ~array.some THEN Err("HlAttr")
       ELSE LET a == array.val
            IN IF Len(a) < 1 THEN Err("HlAttr")
               ELSE IF ~ParseU64(a[1]).some THEN Err("HlAttr")
               ELSE IF Len(a) < 2 THEN Err("HlAttr")
               ELSE IF ~AttributesTryFrom(a[2]).ok THEN AttributesTryFrom(a[2])
               ELSE IF Len(a) < 3 THEN Err("HlAttr")
               ELSE IF ~AttributesTryFrom(a[3]).ok THEN AttributesTryFrom(a[3])
               ELSE IF Len(a) < 4 THEN Err("HlAttr")
               ELSE IF ~ParseArray(a[4]).some THEN Err("HlAttr")
               ELSE LET infos == ParseArray(a[4]).val
                        info == Collect([i \in 1..Len(infos) |-> InfoTryFrom(infos[i])])
                    IN IF ~info.ok THEN info
                       ELSE Ok([id |-> ParseU64(a[1]).val,
                                rgb_attr |-> AttributesTryFrom(a[2]).val,
                                cterm_attr |-> AttributesTryFrom(a[3]).val,
                                info |-> info.val])

\* HlAttrDefine::try_from over the entries of the event
HlAttrDefineTryFrom(values) ==
    LET hl_attrs == Collect([i \in 1..Len(values) |-> HlAttrTryFrom(values[i])])
    IN IF ~hl_attrs.ok THEN hl_attrs
       ELSE Ok([hl_attrs |-> hl_attrs.val])

\* ---------------------------------------------------------------- Incoming
\* Ord for QueuedResponse: by msgid alone
QueuedResponseCmpMin(a, b) == a >= b
QueuedResponseCmp(a, b) == a <= b

\* BinaryHeap::peek: the greatest element under Ord
Peek(heap) ==
    IF heap = EmptyBag THEN None
    ELSE Some(CHOOSE x \in BagToSet(heap) :
                  \A y \in BagToSet(heap) : QueuedResponseCmp(y, x))

\* Vec::last
Last(s) == IF s = <<>> THEN None ELSE Some(s[Len(s)])

\* Incoming::push_request
PushRequest(reqs, msgid) == Append(reqs, msgid)

\* Incoming::next_ready: the released response (or None) and the new stack and heap
NextReadyKeepStack(reqs, heap) ==
    LET id == Last(reqs)
        response == Peek(heap)
    IN IF id.some /\ response.some /\ id.val = response.val
       THEN [ready |-> response, requests |-> reqs,
             responses |-> heap (-) SetToBag({response.val})]
       ELSE [ready |-> None, requests |-> reqs, responses |-> heap]

\* the released response stays in the buffer
NextReadyKeepsBuffered(reqs, heap) ==
    LET id == Last(reqs)
        response == Peek(heap)
    IN IF id.some /\ response.some /\ id.val = response.val
       THEN [ready |-> response,
             requests |-> SubSeq(reqs, 1, Len(reqs) - 1),
             responses |-> heap]
       ELSE [ready |-> None, requests |-> reqs, responses |-> heap]

NextReady(reqs, heap) ==
    LET id == Last(reqs)
        response == Peek(heap)
    IN IF id.some /\ response.some /\ id.val = response.val
       THEN [ready |-> response,
             requests |-> SubSeq(reqs, 1, Len(reqs) - 1),
             responses |-> heap (-) SetToBag({response.val})]
       ELSE [ready |-> None, requests |-> reqs, responses |-> heap]

\* F applied to the value of x, with x evaluated once
ApplyTo(F(_), x) == CHOOSE res \in {F(y) : y \in {x}} : TRUE

\* the while loop of push_response; tx.send(..).unwrap() panics when the
\* receiver is gone, after next_ready has already popped stack and heap
RECURSIVE Cascade(_, _, _, _)
Cascade(reqs, heap, out, alive) ==
    LET Body(r) ==
          IF ~r.ready.some
          THEN [requests |-> reqs, responses |-> heap, sent |-> out, panicked |-> FALSE]
          ELSE IF ~alive
          THEN [requests |-> r.requests, responses |-> r.responses,
                sent |-> out, panicked |-> TRUE]
          ELSE Cascade(r.requests, r.responses, Append(out, r.ready.val), alive)
    IN ApplyTo(Body, NextReady(reqs, heap))

\* Incoming::push_response
PushResponseNoLoop(reqs, heap, response, alive) ==
    LET h == heap (+) SetToBag({response})
        r == NextReady(reqs, h)
    IN IF r.ready.some /\ alive
       THEN [requests |-> r.requests, responses |-> r.responses,
             sent |-> <<r.ready.val>>, panicked |-> FALSE]
       ELSE [requests |-> r.requests, responses |-> r.responses,
             sent |-> <<>>, panicked |-> r.ready.some]

PushResponse(reqs, heap, response, alive) ==
    Cascade(reqs, heap (+) SetToBag({response}), <<>>, alive)

\* ----------------------------------------------------------------- history
\* the discipline the NOTE above Incoming asks of its callers: request msgids
\* strictly increasing, each response answering a registered request that
\* has no response yet
RegisterKeepsOrder(m) == \A i \in 1..Len(registered) : registered[i] < m
RespondKeepsOrder(m) ==
    /\ \E i \in 1..Len(registered) : registered[i] = m
    /\ ~BagIn(m, arrived)

\* msgid is the id of a request on the pending stack
IsPending(reqs, msgid) == \E j \in 1..Len(reqs) : reqs[j] = msgid

\* ------------------------------------------------- operations on Incoming
\* a push that also runs the release rule, dropping what it releases
PushRequestOpReleases(m) ==
    /\ Len(registered) < MaxRequests
    /\ \E r \in {Cascade(PushRequest(requests, m), responses, <<>>, TRUE)} :
          /\ requests' = r.requests
          /\ responses' = r.responses
    /\ registered' = Append(registered, m)
    /\ lateReg' = (lateReg \/ arrived # EmptyBag)
    /\ inOrder' = (inOrder /\ RegisterKeepsOrder(m))
    /\ lastOp' = [op |-> "push_request", msgid |-> m, sent |-> <<>>]
    /\ UNCHANGED <<poisoned, arrived, unmatched>>

\* one call of Incoming::push_request
PushRequestOp(m) ==
    /\ Len(registered) < MaxRequests
    /\ requests' = PushRequest(requests, m)
    /\ registered' = Append(registered, m)
    /\ lateReg' = (lateReg \/ arrived # EmptyBag)
    /\ inOrder' = (inOrder /\ RegisterKeepsOrder(m))
    /\ lastOp' = [op |-> "push_request", msgid |-> m, sent |-> <<>>]
    /\ UNCHANGED <<responses, poisoned, arrived, unmatched>>

\* one call of Incoming::push_response with the session's Sender
PushResponseOp(m) ==
    /\ BagCardinality(arrived) < MaxResponses
    /\ \E r \in {PushResponse(requests, responses, m, rxAlive)} :
          /\ requests' = r.requests
          /\ responses' = r.responses
          /\ queue' = queue \o SeqMap(Response, r.sent)
          /\ sent' = sent \o SeqMap(Response, r.sent)
          /\ poisoned' = (poisoned \/ r.panicked)
          /\ lastOp' = [op |-> "push_response", msgid |-> m, sent |-> r.sent]
    /\ arrived' = arrived (+) SetToBag({m})
    /\ inOrder' = (inOrder /\ RespondKeepsOrder(m))
    /\ unmatched' = IF IsPending(requests, m) THEN unmatched ELSE unmatched \cup {m}
    /\ UNCHANGED <<rxAlive, txAlive, registered, lateReg>>

\* -------------------------------------------------- Incoming, driven directly
push_request(m) ==
    /\ PushRequestOp(m)
    /\ UNCHANGED <<channelVars, writerVars, callVars, readerVars, log>>
    /\ UNCHANGED eventVars

push_response(m) ==
    /\ PushResponseOp(m)
    /\ UNCHANGED <<writerVars, callVars, readerVars, log>>
    /\ UNCHANGED eventVars

\* ------------------------------------------------------------------ Neovim
\* Neovim::send_response: on a poisoned lock write().unwrap() panics in the
\* calling thread before anything of Incoming is changed
SendResponseIntoPoisoned(m) ==
    /\ txAlive
    /\ PushResponseOp(m)
    /\ UNCHANGED <<writerVars, callVars, readerVars, log>>
    /\ UNCHANGED eventVars

SendResponse(m) ==
    /\ txAlive
    /\ IF poisoned
       THEN /\ lastOp' = [op |-> "write().unwrap() panicked", msgid |-> m, sent |-> <<>>]
            /\ UNCHANGED <<requests, responses, poisoned, registered, arrived,
                           lateReg, inOrder, unmatched, channelVars>>
       ELSE PushResponseOp(m)
    /\ UNCHANGED <<writerVars, callVars, readerVars, log>>
    /\ UNCHANGED eventVars

\* the block of Neovim::call that holds the lock on next_msgid: read the
\* counter and add one (u64; the bound on calls keeps it far from 2^64)
DrawMsgidNoIncrement(counter) == [msgid |-> counter, next |-> counter]
DrawMsgid(counter) == [msgid |-> counter, next |-> counter + 1]

\* Neovim::call, first half: draw the msgid under the mutex
CallDraw(c) ==
    /\ txAlive
    /\ callPc[c] = "idle"
    /\ Len(drawn) < MaxCalls
    /\ \E d \in {DrawMsgid(next_msgid)} :
          /\ next_msgid' = d.next
          /\ callId' = [callId EXCEPT ![c] = d.msgid]
          /\ drawn' = Append(drawn, d.msgid)
    /\ callPc' = [callPc EXCEPT ![c] = "send"]
    /\ UNCHANGED <<incomingVars, channelVars, writerVars, readerVars, returned, log>>
    /\ UNCHANGED eventVars

\* what Neovim::call does to the session besides drawing the msgid
CallEffectsPushPending(c) ==
    /\ requests' = Append(requests, callId[c])
    /\ UNCHANGED <<responses, poisoned, registered, arrived, lateReg, inOrder,
                   unmatched, lastOp>>
CallEffects(c) ==
    UNCHANGED incomingVars

\* Neovim::call, second half: tx.send(req.into()), an error is only logged;
\* then the msgid is returned
CallSendUnwraps(c) ==
    /\ callPc[c] = "send"
    /\ rxAlive
    /\ queue' = Append(queue, Request(callId[c]))
    /\ sent' = Append(sent, Request(callId[c]))
    /\ log' = log
    /\ CallEffects(c)
    /\ returned' = Append(returned, [caller |-> c, msgid |-> callId[c]])
    /\ callPc' = [callPc EXCEPT ![c] = "idle"]
    /\ UNCHANGED <<rxAlive, txAlive, writerVars, readerVars, next_msgid, callId, drawn>>
    /\ UNCHANGED eventVars
CallSend(c) ==
    /\ callPc[c] = "send"
    /\ IF rxAlive
       THEN /\ queue' = Append(queue, Request(callId[c]))
            /\ sent' = Append(sent, Request(callId[c]))
            /\ log' = log
       ELSE /\ log' = [log EXCEPT !.error = @ + 1]
            /\ UNCHANGED <<queue, sent>>
    /\ CallEffects(c)
    /\ returned' = Append(returned, [caller |-> c, msgid |-> callId[c]])
    /\ callPc' = [callPc EXCEPT ![c] = "idle"]
    /\ UNCHANGED <<rxAlive, txAlive, writerVars, readerVars, next_msgid, callId, drawn>>
    /\ UNCHANGED eventVars

\* the last clone of the Neovim handle is dropped, and its Sender with it;
\* a call in progress borrows the handle, so none is
DropNeovim ==
    /\ txAlive
    /\ \A c \in Callers : callPc[c] = "idle"
    /\ txAlive' = FALSE
    /\ UNCHANGED <<incomingVars, queue, sent, rxAlive, writerVars, callVars,
                   readerVars, log>>
    /\ UNCHANGED eventVars

\* ------------------------------------------------------------- StdinThread
\* StdinThread::start, one turn of the loop with encode returning Ok
WriterWriteNewestFirst ==
    /\ writerPc = "running"
    /\ queue # <<>>
    /\ stdin' = Append(stdin, queue[Len(queue)])
    /\ queue' = SubSeq(queue, 1, Len(queue) - 1)
    /\ UNCHANGED <<incomingVars, sent, rxAlive, txAlive, writerPc, callVars,
                   readerVars, log>>
    /\ UNCHANGED eventVars
WriterWrite ==
    /\ writerPc = "running"
    /\ queue # <<>>
    /\ stdin' = Append(stdin, Head(queue))
    /\ queue' = Tail(queue)
    /\ UNCHANGED <<incomingVars, sent, rxAlive, txAlive, writerPc, callVars,
                   readerVars, log>>
    /\ UNCHANGED eventVars

\* StdinThread::start, encode returns Err: the thread returns, dropping the
\* Receiver and with it whatever is still queued
WriterFailGoesOn ==
    /\ writerPc = "running"
    /\ queue # <<>>
    /\ queue' = Tail(queue)
    /\ UNCHANGED <<incomingVars, sent, rxAlive, txAlive, writerVars, callVars,
                   readerVars, log>>
    /\ UNCHANGED eventVars
WriterFail ==
    /\ writerPc = "running"
    /\ queue # <<>>
    /\ writerPc' = "exited"
    /\ rxAlive' = FALSE
    /\ queue' = <<>>
    /\ UNCHANGED <<incomingVars, sent, txAlive, stdin, callVars, readerVars, log>>
    /\ UNCHANGED eventVars

\* StdinThread::start, rx.recv() returns Err: every Sender is dropped and
\* nothing is left in the channel; the loop ends and the thread returns
WriterClose ==
    /\ writerPc = "running"
    /\ ~txAlive
    /\ queue = <<>>
    /\ writerPc' = "exited"
    /\ rxAlive' = FALSE
    /\ UNCHANGED <<incomingVars, queue, sent, txAlive, stdin, callVars, readerVars, log>>
    /\ UNCHANGED eventVars

\* ------------------------------------------------------------ StdoutThread
DecodeErrors ==
    {"InvalidMarkerRead:UnexpectedEof", "InvalidMarkerRead:Other",
     "InvalidDataRead:UnexpectedEof", "InvalidDataRead:Other",
     "DepthLimitExceeded", "Parse"}

\* the match on the decode error: whether log::error! is called
LogsDecodeErrorMarkerOnly(e) ==
    e # "InvalidMarkerRead:UnexpectedEof"
LogsDecodeError(e) ==
    e \notin {"InvalidMarkerRead:UnexpectedEof", "InvalidDataRead:UnexpectedEof"}

\* decode fails: log (unless EOF), handler.handle_shutdown(), return
ReaderFailNoReturn(e) ==
    /\ readerPc = "decode"
    /\ lastRead' = [kind |-> "Error", msgid |-> 0, error |-> e]
    /\ log' = IF LogsDecodeError(e) THEN [log EXCEPT !.error = @ + 1] ELSE log
    /\ handled' = [handled EXCEPT !.shutdown = @ + 1]
    /\ readerPc' = "decode"
    /\ UNCHANGED <<incomingVars, channelVars, writerVars, callVars, decoded>>
    /\ UNCHANGED eventVars
ReaderFailDrains(e) ==
    /\ readerPc = "decode"
    /\ lastRead' = [kind |-> "Error", msgid |-> 0, error |-> e]
    /\ log' = IF LogsDecodeError(e) THEN [log EXCEPT !.error = @ + 1] ELSE log
    /\ handled' = [handled EXCEPT !.shutdown = @ + 1]
    /\ readerPc' = "exited"
    /\ requests' = <<>>
    /\ responses' = EmptyBag
    /\ UNCHANGED <<poisoned, registered, arrived, lateReg, inOrder, unmatched,
                   lastOp, channelVars, writerVars, callVars, decoded>>
    /\ UNCHANGED eventVars
ReaderFail(e) ==
    /\ readerPc = "decode"
    /\ lastRead' = [kind |-> "Error", msgid |-> 0, error |-> e]
    /\ log' = IF LogsDecodeError(e) THEN [log EXCEPT !.error = @ + 1] ELSE log
    /\ handled' = [handled EXCEPT !.shutdown = @ + 1]
    /\ readerPc' = "exited"
    /\ UNCHANGED <<incomingVars, channelVars, writerVars, callVars, decoded>>
    /\ UNCHANGED eventVars

\* Message::Request: log, push the msgid under the write lock (a poisoned
\* lock makes write().unwrap() panic); handler.handle_request comes next
ReaderRequestHandsOff(m) ==
    /\ readerPc = "decode"
    /\ decoded < MaxInbound
    /\ decoded' = decoded + 1
    /\ lastRead' = [kind |-> "Request", msgid |-> m, error |-> "Nil"]
    /\ log' = [log EXCEPT !.info = @ + 1]
    /\ IF poisoned
       THEN /\ readerPc' = "panicked"
            /\ UNCHANGED incomingVars
       ELSE /\ PushRequestOp(m)
            /\ readerPc' = "decode"
    /\ UNCHANGED <<channelVars, writerVars, callVars, handled>>
    /\ UNCHANGED eventVars
\* the handler is called first, the msgid is not yet on the stack
ReaderRequestHandlerFirst(m) ==
    /\ readerPc = "decode"
    /\ decoded < MaxInbound
    /\ decoded' = decoded + 1
    /\ lastRead' = [kind |-> "Request", msgid |-> m, error |-> "Nil"]
    /\ log' = [log EXCEPT !.info = @ + 1]
    /\ IF poisoned
       THEN /\ readerPc' = "panicked"
       ELSE /\ readerPc' = "handle_request"
    /\ UNCHANGED <<incomingVars, channelVars, writerVars, callVars, handled>>
    /\ UNCHANGED eventVars

ReaderRequest(m) ==
    /\ readerPc = "decode"
    /\ decoded < MaxInbound
    /\ decoded' = decoded + 1
    /\ lastRead' = [kind |-> "Request", msgid |-> m, error |-> "Nil"]
    /\ log' = [log EXCEPT !.info = @ + 1]
    /\ IF poisoned
       THEN /\ readerPc' = "panicked"
            /\ UNCHANGED incomingVars
       ELSE /\ PushRequestOp(m)
            /\ readerPc' = "handle_request"
    /\ UNCHANGED <<channelVars, writerVars, callVars, handled>>
    /\ UNCHANGED eventVars

\* handler.handle_request(request)
ReaderHandleRequest ==
    /\ readerPc = "handle_request"
    /\ handled' = [handled EXCEPT !.request = @ + 1]
    /\ readerPc' = "decode"
    /\ UNCHANGED <<incomingVars, channelVars, writerVars, callVars,
                   lastRead, decoded, log>>
    /\ UNCHANGED eventVars

\* what the Message::Response arm does to Incoming and the channel
ResponseArmPushes(m) ==
    /\ PushResponseOp(m)
ResponseArm(m) ==
    /\ UNCHANGED <<incomingVars, channelVars>>

\* the level the Message::Response arm logs at
ResponseLogLevelAlwaysInfo(err) == "info"
ResponseLogLevel(err) == IF err # "Nil" THEN "error" ELSE "info"

\* Message::Response: log::error! when error /= Nil, else log::info!
ReaderResponse(m, err) ==
    /\ readerPc = "decode"
    /\ decoded < MaxInbound
    /\ decoded' = decoded + 1
    /\ lastRead' = [kind |-> "Response", msgid |-> m, error |-> err]
    /\ log' = [log EXCEPT ![ResponseLogLevel(err)] = @ + 1]
    /\ ResponseArm(m)
    /\ UNCHANGED <<writerVars, callVars, readerPc, handled>>
    /\ UNCHANGED eventVars

\* Message::Notification: handler.handle_notification(notification)
ReaderNotification ==
    /\ readerPc = "decode"
    /\ decoded < MaxInbound
    /\ decoded' = decoded + 1
    /\ lastRead' = [kind |-> "Notification", msgid |-> 0, error |-> "Nil"]
    /\ handled' = [handled EXCEPT !.notification = @ + 1]
    /\ UNCHANGED <<incomingVars, channelVars, writerVars, callVars, readerPc, log>>
    /\ UNCHANGED eventVars

\* ----------------------------------------------------------- specifications
InitNeovim ==
    /\ requests = <<>>
    /\ responses = EmptyBag
    /\ queue = <<>>
    /\ sent = <<>>
    /\ rxAlive = TRUE
    /\ txAlive = TRUE
    /\ poisoned = FALSE
    /\ registered = <<>>
    /\ arrived = EmptyBag
    /\ lateReg = FALSE
    /\ inOrder = TRUE
    /\ unmatched = {}
    /\ lastOp = [op |-> "new", msgid |-> 0, sent |-> <<>>]
    /\ stdin = <<>>
    /\ writerPc = "running"
    /\ next_msgid = 0
    /\ callPc = [c \in Callers |-> "idle"]
    /\ callId = [c \in Callers |-> 0]
    /\ readerPc = "decode"
    /\ lastRead = [kind |-> "None", msgid |-> 0, error |-> "Nil"]
    /\ decoded = 0
    /\ handled = [request |-> 0, notification |-> 0, shutdown |-> 0]
    /\ log = [error |-> 0, info |-> 0]
    /\ drawn = <<>>
    /\ returned = <<>>

\* the RwLock around Incoming after Neovim::new: free, no call in progress
InitLock ==
    /\ lockHolder = None
    /\ sendPc = [t \in Callers |-> "idle"]
    /\ sendId = [t \in Callers |-> 0]
    /\ sendCall = [t \in Callers |-> 0]
    /\ pushId = None
    /\ opLog = <<>>

\* async_main after the channel is made and the consumer task is spawned
InitUi ==
    /\ eventChannel = <<>>
    /\ eventTx = TRUE
    /\ events = <<>>
    /\ uiTask = "running"
    /\ batchesSent = <<>>
    /\ processed = <<>>

\* =============================================================== rendering
renderFrame == <<incomingVars, channelVars, writerVars, callVars, readerVars, log,
                 params, parsed, uiVars, lockVars>>

\* ---------------------------------------------------------- ScrollingGrids
\* i32 on IntWidth bits
I32Min == -(2^(IntWidth - 1))
I32Max == 2^(IntWidth - 1) - 1
FitsI32(x) == x >= I32Min /\ x <= I32Max
\* two's complement result of i32 arithmetic in a build without overflow checks
WrapI32(x) == ((x - I32Min) % (2^IntWidth)) + I32Min
MinOf(a, b) == IF a <= b THEN a ELSE b
MaxOf(a, b) == IF a >= b THEN a ELSE b
AbsOf(x) == IF x < 0 THEN -x ELSE x

Heights == 1..MaxHeight
\* the offsets given to push: within a grid, one beyond it, and i32::MIN
Offsets == (-(MaxHeight + 1)..(MaxHeight + 1)) \cup {I32Min}
\* a GridContents: its number of rows and which grid it is
GridContents(y, n) == [y |-> y, n |-> n]
NoGrid == GridContents(0, -1)

\* GridPart::new
GridPartNew(grid) == [grid |-> grid, offset |-> 0, start |-> 0, end |-> grid.y]

\* range.rs: a half-open range of rows
Range(start, end) == [start |-> start, end |-> end]
RangeUntil(end) == Range(0, end)
RangeAdd(r, k) == Range(r.start + k, r.end + k)
RangeSub(r, k) == Range(r.start - k, r.end - k)
\* the smallest range holding both
RangeUnion(a, b) == Range(MinOf(a.start, b.start), MaxOf(a.end, b.end))
\* the rows of a that b leaves uncovered, None when b covers a
RangeCover(a, b) ==
    IF a.start >= b.start /\ a.end <= b.end THEN None
    ELSE IF a.start < b.start THEN Some(Range(a.start, MinOf(a.end, b.start)))
    ELSE Some(Range(MaxOf(a.start, b.end), a.end))

\* push, lines 50-52: the local offset after the clamp
PushOffset(grid, offset) ==
    LET sign == IF offset > 0 THEN 1 ELSE -1
        mag == MinOf(WrapI32(AbsOf(offset)), grid.y)
    IN  WrapI32(mag * sign)

\* offset.abs() or mag * sign leaves i32
PushOffsetOverflows(grid, offset) ==
    LET sign == IF offset > 0 THEN 1 ELSE -1
        mag == MinOf(WrapI32(AbsOf(offset)), grid.y)
    IN  ~FitsI32(AbsOf(offset)) \/ ~FitsI32(mag * sign)

\* part.offset -= offset leaves i32 for some part
RetainOverflows(parts, offset) ==
    \E i \in DOMAIN parts : ~FitsI32(parts[i].offset - offset)

\* Range::until(part.grid.size.y) + part.offset stays in i32 for every part
RangesFit(parts, offset) ==
    \A i \in DOMAIN parts : FitsI32(WrapI32(parts[i].offset - offset) + parts[i].grid.y)

\* the closure of retain_mut on one part: the part after it, whether it is
\* kept, whether a try_into().unwrap() panicked, and the coverage after it
RetainPart(part, coverage, offset, y) ==
    LET part_offset == WrapI32(part.offset - offset)
        grid_range == RangeAdd(RangeUntil(part.grid.y), part_offset)
        uncovered == RangeCover(grid_range, coverage)
        rows == IF uncovered.some THEN RangeSub(uncovered.val, part_offset) ELSE Range(0, 0)
    IN  [part |-> IF uncovered.some
                  THEN [part EXCEPT !.offset = part_offset, !.start = rows.start,
                                    !.end = rows.end]
                  ELSE [part EXCEPT !.offset = part_offset],
         keep |-> uncovered.some /\ part.grid.y = y,
         panic |-> rows.start < 0 \/ rows.end < 0,
         coverage |-> RangeUnion(coverage, grid_range)]

\* retain_mut over the queue, front first
RECURSIVE RetainMut(_, _, _, _)
RetainMut(parts, coverage, offset, y) ==
    IF parts = <<>> THEN <<>>
    ELSE LET r == RetainPart(Head(parts), coverage, offset, y)
             rest == RetainMut(Tail(parts), r.coverage, offset, y)
         IN  IF r.keep THEN <<r.part>> \o rest ELSE rest

\* some try_into().unwrap() of retain_mut panics
RECURSIVE RetainPanics(_, _, _, _)
RetainPanics(parts, coverage, offset, y) ==
    IF parts = <<>> THEN FALSE
    ELSE LET r == RetainPart(Head(parts), coverage, offset, y)
         IN  r.panic \/ RetainPanics(Tail(parts), r.coverage, offset, y)

\* what is remembered of a call: the method, whether it panicked, its
\* arguments, and the queue and t it was called on
ScrollOp(op, panicked, grid, offset, before, t) ==
    [op |-> op, panicked |-> panicked, grid |-> grid, offset |-> offset,
     before |-> before, t |-> t]

\* ScrollingGrids::new
InitScrollingGrids(grid) ==
    /\ scrolling = <<GridPartNew(grid)>>
    /\ scrollT = 0
    /\ scrollOp = ScrollOp("new", FALSE, grid, 0, <<>>, 0)
    /\ gridsMade = 1

\* a panic inside op: the thread unwinds out of the call
ScrollingPanic(op, grid, offset) ==
    /\ scrollOp' = ScrollOp(op, TRUE, grid, offset, scrolling, scrollT)
    /\ UNCHANGED <<scrolling, scrollT, overflowChecks, gridsMade>>

\* ScrollingGrids::push
ScrollingPush(grid, offset) ==
    /\ ~scrollOp.panicked
    /\ gridsMade < MaxGrids
    /\ grid.n = gridsMade
    /\ LET off == PushOffset(grid, offset)
           overflow == PushOffsetOverflows(grid, offset) \/ RetainOverflows(scrolling, off)
       IN  IF \/ overflow /\ overflowChecks
              \/ RetainPanics(scrolling, RangeUntil(grid.y), off, grid.y)
           THEN ScrollingPanic("push", grid, offset)
           ELSE /\ RangesFit(scrolling, off)
                /\ FitsI32(scrollT + off)
                /\ scrolling' = <<GridPartNew(grid)>>
                                    \o RetainMut(scrolling, RangeUntil(grid.y), off, grid.y)
                /\ scrollT' = scrollT + off
                /\ scrollOp' = ScrollOp("push", FALSE, grid, offset, scrolling, scrollT)
                /\ gridsMade' = gridsMade + 1
                /\ UNCHANGED overflowChecks
    /\ UNCHANGED <<stateVars, fontVars, renderFrame>>

\* ScrollingGrids::replace
ScrollingReplace(grid) ==
    /\ ~scrollOp.panicked
    /\ gridsMade < MaxGrids
    /\ grid.n = gridsMade
    /\ IF scrolling = <<>>
       THEN ScrollingPanic("replace", grid, 0)
       ELSE /\ scrolling' = <<GridPartNew(grid)>> \o Tail(scrolling)
            /\ scrollOp' = ScrollOp("replace", FALSE, grid, 0, scrolling, scrollT)
            /\ gridsMade' = gridsMade + 1
            /\ UNCHANGED <<scrollT, overflowChecks>>
    /\ UNCHANGED <<stateVars, fontVars, renderFrame>>

\* drain(1..) and the assert_eq of finish_scroll
FinishScrollKeepsBack(parts) == <<parts[Len(parts)]>>
FinishScroll(parts) == <<Head(parts)>>

\* ScrollingGrids::finish_scroll
ScrollingFinishScroll ==
    /\ ~scrollOp.panicked
    /\ IF scrolling = <<>>
       THEN ScrollingPanic("finish_scroll", NoGrid, 0)
       ELSE /\ scrolling' = FinishScroll(scrolling)
            /\ scrollOp' = ScrollOp("finish_scroll", FALSE, NoGrid, 0, scrolling, scrollT)
            /\ UNCHANGED <<scrollT, overflowChecks, gridsMade>>
    /\ UNCHANGED <<stateVars, fontVars, renderFrame>>

\* ScrollingGrids::advance; t is kept in whole rows, so |t| < 0.025 is t = 0 and
\* a step towards zero is a whole number of rows, at most |t|
ScrollingAdvance(mag) ==
    /\ ~scrollOp.panicked
    /\ IF scrollT = 0
       THEN /\ mag = 0
            /\ IF scrolling = <<>>
               THEN ScrollingPanic("advance", NoGrid, 0)
               ELSE /\ scrolling' = FinishScroll(scrolling)
                    /\ scrollT' = 0
                    /\ scrollOp' = ScrollOp("advance", FALSE, NoGrid, 0, scrolling, scrollT)
                    /\ UNCHANGED <<overflowChecks, gridsMade>>
       ELSE /\ mag \in 1..AbsOf(scrollT)
            /\ scrollT' = scrollT + (IF scrollT > 0 THEN -1 ELSE 1) * mag
            /\ scrollOp' = ScrollOp("advance", FALSE, NoGrid, 0, scrolling, scrollT)
            /\ UNCHANGED <<scrolling, overflowChecks, gridsMade>>
    /\ UNCHANGED <<stateVars, fontVars, renderFrame>>

\* ScrollingGrids::size
ScrollingSize ==
    /\ ~scrollOp.panicked
    /\ IF scrolling = <<>>
       THEN ScrollingPanic("size", NoGrid, 0)
       ELSE /\ scrollOp' = ScrollOp("size", FALSE, scrolling[Len(scrolling)].grid, 0,
                                 scrolling, scrollT)
            /\ UNCHANGED <<scrolling, scrollT, overflowChecks, gridsMade>>
    /\ UNCHANGED <<stateVars, fontVars, renderFrame>>

NextScrolling ==
    \/ \E y \in Heights, offset \in Offsets : ScrollingPush(GridContents(y, gridsMade), offset)
    \/ \E y \in Heights : ScrollingReplace(GridContents(y, gridsMade))
    \/ ScrollingFinishScroll
    \/ \E mag \in 0..(-I32Min) : ScrollingAdvance(mag)
    \/ ScrollingSize


\* -------------------------------------------------------------------- State
Mutexes == {"size", "clear_color", "vertex_buffer", "grid_render", "vertex_count"}
NoFrame == [grid_render |-> None, vertex_buffer |-> -1, clear_color |-> -1,
            vertex_count |-> -1]

\* State::new: the fields of Self and the spawned update thread at rx.recv()
InitState ==
    /\ mutex = [m \in Mutexes |-> "free"]
    /\ vertex_buffer = 0
    /\ grid_render = None
    /\ vertex_count = 0
    /\ clear_color = 0
    /\ updatePc = "recv"
    /\ updateCall = 0
    /\ renderPc = "idle"
    /\ frame = NoFrame

stateFrame == <<scrollVars, fontVars, renderFrame>>

\* the update thread: rx.recv() returns a Ui and update_text is entered
UpdateRecv ==
    /\ updatePc = "recv"
    /\ updateCall < MaxUpdates
    /\ updateCall' = updateCall + 1
    /\ updatePc' = "size"
    /\ UNCHANGED <<mutex, vertex_buffer, grid_render, vertex_count, clear_color,
                   renderPc, frame, stateFrame>>

\* update_text: let size = *self.size.lock().unwrap()
UpdateSize ==
    /\ updatePc = "size"
    /\ mutex["size"] = "free"
    /\ updatePc' = "clear_color"
    /\ UNCHANGED <<mutex, vertex_buffer, grid_render, vertex_count, clear_color,
                   updateCall, renderPc, frame, stateFrame>>

\* update_text: *self.clear_color.lock().unwrap() = ..
UpdateClearColor ==
    /\ updatePc = "clear_color"
    /\ mutex["clear_color"] = "free"
    /\ clear_color' = updateCall
    /\ updatePc' = "vertex_buffer"
    /\ UNCHANGED <<mutex, vertex_buffer, grid_render, vertex_count, updateCall,
                   renderPc, frame, stateFrame>>

\* update_text: *self.vertex_buffer.lock().unwrap() = create_buffer_init(..);
\* the guard is a temporary, dropped at the end of the statement
UpdateVertexBuffer ==
    /\ updatePc = "vertex_buffer"
    /\ mutex["vertex_buffer"] = "free"
    /\ vertex_buffer' = updateCall
    /\ updatePc' = "grid_render"
    /\ UNCHANGED <<mutex, grid_render, vertex_count, clear_color, updateCall,
                   renderPc, frame, stateFrame>>

\* update_text: *self.grid_render.lock().unwrap() = Some(pipeline)
UpdateGridRender ==
    /\ updatePc = "grid_render"
    /\ mutex["grid_render"] = "free"
    /\ grid_render' = Some(updateCall)
    /\ updatePc' = "vertex_count"
    /\ UNCHANGED <<mutex, vertex_buffer, vertex_count, clear_color, updateCall,
                   renderPc, frame, stateFrame>>

\* update_text: *self.vertex_count.lock().unwrap() = vertices.len(); the call
\* returns and the thread is back at rx.recv()
UpdateVertexCount ==
    /\ updatePc = "vertex_count"
    /\ mutex["vertex_count"] = "free"
    /\ vertex_count' = updateCall
    /\ updatePc' = "recv"
    /\ UNCHANGED <<mutex, vertex_buffer, grid_render, clear_color, updateCall,
                   renderPc, frame, stateFrame>>

\* render is entered; get_current_texture()? returns early on an error
RenderStart(ok) ==
    /\ renderPc = "idle"
    /\ renderPc' = IF ok THEN "grid_render" ELSE "idle"
    /\ frame' = NoFrame
    /\ UNCHANGED <<mutex, vertex_buffer, grid_render, vertex_count, clear_color,
                   updatePc, updateCall, stateFrame>>

\* render: let grid_render = self.grid_render.lock().unwrap(); the guard lives
\* to the end of render
RenderLockGridRender ==
    /\ renderPc = "grid_render"
    /\ mutex["grid_render"] = "free"
    /\ mutex' = [mutex EXCEPT !["grid_render"] = "render"]
    /\ frame' = [frame EXCEPT !.grid_render = grid_render]
    /\ renderPc' = "vertex_buffer"
    /\ UNCHANGED <<vertex_buffer, grid_render, vertex_count, clear_color,
                   updatePc, updateCall, stateFrame>>

\* render: let vertex_buffer = self.vertex_buffer.lock().unwrap()
RenderLockVertexBuffer ==
    /\ renderPc = "vertex_buffer"
    /\ mutex["vertex_buffer"] = "free"
    /\ mutex' = [mutex EXCEPT !["vertex_buffer"] = "render"]
    /\ frame' = [frame EXCEPT !.vertex_buffer = vertex_buffer]
    /\ renderPc' = "clear_color"
    /\ UNCHANGED <<vertex_buffer, grid_render, vertex_count, clear_color,
                   updatePc, updateCall, stateFrame>>

\* render: let clear_color = *self.clear_color.lock().unwrap()
RenderClearColor ==
    /\ renderPc = "clear_color"
    /\ mutex["clear_color"] = "free"
    /\ frame' = [frame EXCEPT !.clear_color = clear_color]
    /\ renderPc' = "vertex_count"
    /\ UNCHANGED <<mutex, vertex_buffer, grid_render, vertex_count, clear_color,
                   updatePc, updateCall, stateFrame>>

\* render: let vertex_count = *self.vertex_count.lock().unwrap()
RenderVertexCount ==
    /\ renderPc = "vertex_count"
    /\ mutex["vertex_count"] = "free"
    /\ frame' = [frame EXCEPT !.vertex_count = vertex_count]
    /\ renderPc' = "draw"
    /\ UNCHANGED <<mutex, vertex_buffer, grid_render, vertex_count, clear_color,
                   updatePc, updateCall, stateFrame>>

\* render: the render pass, queue.submit and present
RenderDraw ==
    /\ renderPc = "draw"
    /\ renderPc' = "drawn"
    /\ UNCHANGED <<mutex, vertex_buffer, grid_render, vertex_count, clear_color,
                   updatePc, updateCall, frame, stateFrame>>

\* render returns Ok(()): the two guards are dropped
RenderReturn ==
    /\ renderPc = "drawn"
    /\ mutex' = [mutex EXCEPT !["grid_render"] = "free", !["vertex_buffer"] = "free"]
    /\ renderPc' = "idle"
    /\ UNCHANGED <<vertex_buffer, grid_render, vertex_count, clear_color,
                   updatePc, updateCall, frame, stateFrame>>

NextState ==
    \/ UpdateRecv
    \/ UpdateSize
    \/ UpdateClearColor
    \/ UpdateVertexBuffer
    \/ UpdateGridRender
    \/ UpdateVertexCount
    \/ \E ok \in BOOLEAN : RenderStart(ok)
    \/ RenderLockGridRender
    \/ RenderLockVertexBuffer
    \/ RenderClearColor
    \/ RenderVertexCount
    \/ RenderDraw
    \/ RenderReturn

\* ----------------------------------------------------------- StateFontWrite
GlyphData == {"a", "b"}
GlyphSizes == {1, 2}

\* state_font::new
InitFont ==
    /\ font_cache = [data |-> <<>>, info |-> <<>>]
    /\ textures = <<>>
    /\ next_glyph_to_upload = 0
    /\ uploads = <<>>
    /\ fontRead = [outcome |-> "none", tex_count |-> 0]

fontFrame == <<scrollVars, stateVars, renderFrame>>

\* FontCache: a glyph is appended to data and to info
FontCacheAppend(data, size) ==
    /\ fontRead.outcome # "panicked"
    /\ Len(font_cache.data) < MaxGlyphs
    /\ font_cache' = [data |-> Append(font_cache.data, data),
                      info |-> Append(font_cache.info, [size |-> size])]
    /\ UNCHANGED <<textures, next_glyph_to_upload, uploads, fontRead, fontFrame>>

\* Iterator::zip
Zip(a, b) == [i \in 1..MinOf(Len(a), Len(b)) |-> <<a[i], b[i]>>]
\* Iterator::skip
SkipNothing(s, n) == s
Skip(s, n) == SubSeq(s, n + 1, Len(s))
\* Texture::new(device, queue, data, size)
TextureNew(data, size) == [data |-> data, size |-> size]

\* StateFontWrite::get_read: the upload loop, the new next_glyph_to_upload and
\* NonZeroU32::new(textures.len()).unwrap()
GetRead ==
    /\ fontRead.outcome # "panicked"
    /\ LET todo == Skip(Zip(font_cache.data, font_cache.info), next_glyph_to_upload)
           made == [i \in 1..Len(todo) |-> TextureNew(todo[i][1], todo[i][2].size)]
       IN  /\ textures' = textures \o made
           /\ next_glyph_to_upload' = Len(textures) + Len(made)
           /\ uploads' = IF todo = <<>> THEN uploads
                          ELSE Append(uploads, [i \in 1..Len(todo) |->
                                   Len(Zip(font_cache.data, font_cache.info)) - Len(todo) + i])
           /\ fontRead' = IF Len(textures) + Len(made) = 0
                          THEN [outcome |-> "panicked", tex_count |-> 0]
                          ELSE [outcome |-> "ok", tex_count |-> Len(textures) + Len(made)]
    /\ UNCHANGED <<font_cache, fontFrame>>

NextFont ==
    \/ \E data \in GlyphData, size \in GlyphSizes : FontCacheAppend(data, size)
    \/ GetRead

\* the rendering structures after construction
InitRender ==
    /\ InitScrollingGrids(GridContents(1, 0))
    /\ overflowChecks = FALSE
    /\ InitState
    /\ InitFont

Init ==
    /\ InitNeovim
    /\ params = Nil
    /\ parsed = [done |-> FALSE]
    /\ InitUi
    /\ InitLock
    /\ InitRender

\* one ScrollingGrids, made from a grid of any height, in either build
InitScrolling ==
    /\ InitNeovim
    /\ params = Nil
    /\ parsed = [done |-> FALSE]
    /\ InitUi
    /\ InitLock
    /\ \E y \in Heights : InitScrollingGrids(GridContents(y, 0))
    /\ overflowChecks \in BOOLEAN
    /\ InitState
    /\ InitFont

SpecScrolling == InitScrolling /\ [][NextScrolling]_vars
SpecState == Init /\ [][NextState]_vars
SpecFont == Init /\ [][NextFont]_vars

\* ------------------------------------------- Incoming under its RwLock
\* send_response and the reader's Request arm step by step: taking the write
\* lock, the statements of push_response and push_request, dropping the guard
\* at the end of the statement
ReaderThread == 0
lockFrame == <<writerVars, callVars, readerVars, log, params, parsed, uiVars,
               renderVars, rxAlive, txAlive, poisoned, lateReg, inOrder, unmatched, lastOp>>

\* incoming.write().unwrap() in send_response: blocks while the lock is held
SendResponseLockNoExclusion(t, m) ==
    /\ sendPc[t] = "idle"
    /\ BagCardinality(arrived) < MaxResponses
    /\ lockHolder' = Some(t)
    /\ sendPc' = [sendPc EXCEPT ![t] = "push"]
    /\ sendId' = [sendId EXCEPT ![t] = m]
    /\ sendCall' = [sendCall EXCEPT ![t] = BagCardinality(arrived) + 1]
    /\ arrived' = arrived (+) SetToBag({m})
    /\ UNCHANGED <<requests, responses, queue, sent, registered, pushId, opLog, lockFrame>>

SendResponseLock(t, m) ==
    /\ sendPc[t] = "idle"
    /\ lockHolder = None
    /\ BagCardinality(arrived) < MaxResponses
    /\ lockHolder' = Some(t)
    /\ sendPc' = [sendPc EXCEPT ![t] = "push"]
    /\ sendId' = [sendId EXCEPT ![t] = m]
    /\ sendCall' = [sendCall EXCEPT ![t] = BagCardinality(arrived) + 1]
    /\ arrived' = arrived (+) SetToBag({m})
    /\ UNCHANGED <<requests, responses, queue, sent, registered, pushId, opLog, lockFrame>>

\* push_response: self.responses.push(response.into())
SendResponsePush(t) ==
    /\ sendPc[t] = "push"
    /\ responses' = responses (+) SetToBag({sendId[t]})
    /\ opLog' = Append(opLog, [op |-> "insert", call |-> sendCall[t], msgid |-> sendId[t]])
    /\ sendPc' = [sendPc EXCEPT ![t] = "loop"]
    /\ UNCHANGED <<requests, queue, sent, registered, arrived, lockHolder, sendId,
                   sendCall, pushId, lockFrame>>

\* push_response: one test of `while let Some(ready) = self.next_ready()`;
\* Some: tx.send(ready); None: the call returns and the guard is dropped
SendResponseLoop(t) ==
    /\ sendPc[t] = "loop"
    /\ \E r \in {NextReady(requests, responses)} :
          IF r.ready.some
          THEN /\ requests' = r.requests
               /\ responses' = r.responses
               /\ queue' = Append(queue, Response(r.ready.val))
               /\ sent' = Append(sent, Response(r.ready.val))
               /\ opLog' = Append(opLog, [op |-> "emit", call |-> sendCall[t],
                                          msgid |-> r.ready.val])
               /\ UNCHANGED <<lockHolder, sendPc>>
          ELSE /\ sendPc' = [sendPc EXCEPT ![t] = "idle"]
               /\ lockHolder' = IF lockHolder = Some(t) THEN None ELSE lockHolder
               /\ UNCHANGED <<requests, responses, queue, sent, opLog>>
    /\ UNCHANGED <<registered, arrived, sendId, sendCall, pushId, lockFrame>>

\* the reader's Request arm: incoming.write().unwrap()
ReaderPushLock(m) ==
    /\ pushId = None
    /\ lockHolder = None
    /\ Len(registered) < MaxRequests
    /\ lockHolder' = Some(ReaderThread)
    /\ pushId' = Some(m)
    /\ UNCHANGED <<requests, responses, queue, sent, registered, arrived, sendPc,
                   sendId, sendCall, opLog, lockFrame>>

\* the reader's Request arm: push_request(request.msgid), the guard dropped
ReaderPushRequest ==
    /\ pushId # None
    /\ requests' = PushRequest(requests, pushId.val)
    /\ registered' = Append(registered, pushId.val)
    /\ opLog' = Append(opLog, [op |-> "push_request", call |-> 0, msgid |-> pushId.val])
    /\ lockHolder' = IF lockHolder = Some(ReaderThread) THEN None ELSE lockHolder
    /\ pushId' = None
    /\ UNCHANGED <<responses, queue, sent, arrived, sendPc, sendId, sendCall, lockFrame>>

\* requests arrive with increasing msgids and each is answered once, by any
\* thread at any time
LockRespond(t, m) == RespondKeepsOrder(m) /\ SendResponseLock(t, m)
LockRegister(m) == RegisterKeepsOrder(m) /\ ReaderPushLock(m)

NextLock ==
    \/ \E t \in Callers, m \in MsgIds : LockRespond(t, m)
    \/ \E t \in Callers : SendResponsePush(t)
    \/ \E t \in Callers : SendResponseLoop(t)
    \/ \E m \in MsgIds : LockRegister(m)
    \/ ReaderPushRequest

SpecLock == Init /\ [][NextLock]_vars

\* ------------------------------------------------------------- async_main
sessionVars == <<incomingVars, channelVars, writerVars, callVars, readerVars, log,
                 params, parsed, lockVars, renderVars>>

\* sequences over S of length at most n
SeqsUpTo(S, n) == UNION {[1..k -> S] : k \in 0..n}

\* the events a batch is made of
EventKinds == {"grid_line", "hl_attr_define"}
Batches == SeqsUpTo(EventKinds, MaxBatchLen)

\* a holder of the sender sends a batch: tx.send(events).await goes through
\* when the channel has room
EventSend(batch) ==
    /\ eventTx
    /\ uiTask # "dropped"
    /\ Len(batchesSent) < MaxBatches
    /\ Len(eventChannel) < EventChannelCapacity
    /\ eventChannel' = Append(eventChannel, batch)
    /\ batchesSent' = Append(batchesSent, batch)
    /\ UNCHANGED <<eventTx, events, uiTask, processed, sessionVars>>

\* the last sender is dropped
EventSenderDrop ==
    /\ eventTx
    /\ eventTx' = FALSE
    /\ UNCHANGED <<eventChannel, events, uiTask, batchesSent, processed, sessionVars>>

\* rx.recv().await returns Some(events): the oldest batch of the channel
UiRecv ==
    /\ uiTask = "running"
    /\ events = <<>>
    /\ eventChannel # <<>>
    /\ events' = Head(eventChannel)
    /\ eventChannel' = Tail(eventChannel)
    /\ UNCHANGED <<eventTx, uiTask, batchesSent, processed, sessionVars>>

\* one turn of `for event in events`: ui.process(event)
UiProcessSkipsSecond ==
    /\ uiTask = "running"
    /\ events # <<>>
    /\ processed' = Append(processed, Head(events))
    /\ events' = IF Len(events) > 1 THEN Tail(Tail(events)) ELSE <<>>
    /\ UNCHANGED <<eventChannel, eventTx, uiTask, batchesSent, sessionVars>>

UiProcess ==
    /\ uiTask = "running"
    /\ events # <<>>
    /\ processed' = Append(processed, Head(events))
    /\ events' = Tail(events)
    /\ UNCHANGED <<eventChannel, eventTx, uiTask, batchesSent, sessionVars>>

\* rx.recv().await returns None (channel empty, every sender dropped): the
\* while loop and the task end
UiFinish ==
    /\ uiTask = "running"
    /\ events = <<>>
    /\ eventChannel = <<>>
    /\ ~eventTx
    /\ uiTask' = "finished"
    /\ UNCHANGED <<eventChannel, eventTx, events, batchesSent, processed, sessionVars>>

\* io_handle.spin().await returns and block_on drops the runtime: the
\* consumer task is dropped where it awaits, at rx.recv()
AsyncMainReturns ==
    /\ uiTask = "running"
    /\ events = <<>>
    /\ uiTask' = "dropped"
    /\ UNCHANGED <<eventChannel, eventTx, events, batchesSent, processed, sessionVars>>

NextUi ==
    \/ \E batch \in Batches : EventSend(batch)
    \/ EventSenderDrop
    \/ UiRecv
    \/ UiProcess
    \/ UiFinish
    \/ AsyncMainReturns

SpecUi == Init /\ [][NextUi]_vars

\* Incoming alone, its two operations called with any msgids in any order
NextIncoming ==
    \/ \E m \in MsgIds : push_request(m)
    \/ \E m \in MsgIds : push_response(m)

SpecIncoming == Init /\ [][NextIncoming]_vars

\* the whole session: callers, the application answering requests, the
\* reader thread and the writer thread
Next ==
    \/ \E c \in Callers : CallDraw(c)
    \/ \E c \in Callers : CallSend(c)
    \/ \E m \in MsgIds : SendResponse(m)
    \/ WriterWrite
    \/ WriterFail
    \/ WriterClose
    \/ DropNeovim
    \/ \E e \in DecodeErrors : ReaderFail(e)
    \/ \E m \in MsgIds : ReaderRequest(m)
    \/ ReaderHandleRequest
    \/ \E m \in ReplyIds, err \in {"Nil", "Err"} : ReaderResponse(m, err)
    \/ ReaderNotification

Spec == Init /\ [][Next]_vars

\* the writer thread with everything that sends on the channel: one thread
\* making calls and the application answering the requests the reader
\* registers (remote and application keeping the discipline of the NOTE above
\* Incoming), until the handle is dropped
WriterRegister(m) == RegisterKeepsOrder(m) /\ ReaderRequest(m)
WriterRespond(m) == RespondKeepsOrder(m) /\ SendResponse(m)
WriterCall(c) == c = 1 /\ CallDraw(c)

NextWriter ==
    \/ \E c \in Callers : WriterCall(c)
    \/ \E c \in Callers : CallSend(c)
    \/ \E m \in MsgIds : WriterRespond(m)
    \/ \E m \in MsgIds : WriterRegister(m)
    \/ ReaderHandleRequest
    \/ WriterWrite
    \/ WriterFail
    \/ WriterClose
    \/ DropNeovim

SpecWriter == Init /\ [][NextWriter]_vars

\* the callers with the writer thread, and the reader thread registering
\* inbound requests
NextCalls ==
    \/ \E c \in Callers : CallDraw(c)
    \/ \E c \in Callers : CallSend(c)
    \/ WriterWrite
    \/ WriterFail
    \/ \E m \in MsgIds : ReaderRequest(m)
    \/ ReaderHandleRequest

SpecCalls == Init /\ [][NextCalls]_vars

\* the callers with the reader thread decoding whatever the remote sends
NextReplies ==
    \/ \E c \in Callers : CallDraw(c)
    \/ \E c \in Callers : CallSend(c)
    \/ \E e \in DecodeErrors : ReaderFail(e)
    \/ \E m \in MsgIds : ReaderRequest(m)
    \/ ReaderHandleRequest
    \/ \E m \in ReplyIds, err \in {"Nil", "Err"} : ReaderResponse(m, err)
    \/ ReaderNotification

SpecReplies == Init /\ [][NextReplies]_vars

\* the reader thread with the application answering requests
NextReader ==
    \/ \E m \in MsgIds : SendResponse(m)
    \/ \E e \in DecodeErrors : ReaderFail(e)
    \/ \E m \in MsgIds : ReaderRequest(m)
    \/ ReaderHandleRequest
    \/ \E m \in ReplyIds, err \in {"Nil", "Err"} : ReaderResponse(m, err)
    \/ ReaderNotification

SpecReader == Init /\ [][NextReader]_vars

\* the session when the writer thread can fail: one thread calls, any thread
\* answers with any msgid, the reader reads requests with increasing msgids
NextPoison ==
    \/ WriterCall(1)
    \/ \E c \in Callers : CallSend(c)
    \/ WriterFail
    \/ \E m \in MsgIds : SendResponse(m)
    \/ \E m \in MsgIds : WriterRegister(m)
    \/ ReaderHandleRequest

SpecPoison == Init /\ [][NextPoison]_vars


\* ------------------------------------------------------ the event parsers
\* the values tried at the positions of a grid_line parameter array and of
\* a cell array
HeaderVals == {Integer(0), Integer(1), String("x")}
CellVals == {String("a"), Integer(5), Integer(2)}
CellArrays == {Array(c) : c \in SeqsUpTo(CellVals, NumCellFields)} \cup {Integer(7)}
CellLists == {Array(l) : l \in SeqsUpTo(CellArrays, MaxCells)} \cup {String("x")}
GoodCells == Array(<<Array(<<String("a"), Integer(5), Integer(2)>>)>>)

\* parameter values of grid_line notifications: every shorter array, every
\* choice at the first three positions, every list of cells, a trailing
\* extra element, and values that are no array
GridLineInputs ==
    {Array(h) : h \in SeqsUpTo(HeaderVals, 3)}
      \cup {Array(h \o <<GoodCells>>) : h \in [1..3 -> HeaderVals]}
      \cup {Array(<<Integer(1), Integer(0), Integer(0), c>>) : c \in CellLists}
      \cup {Array(<<Integer(1), Integer(0), Integer(0), GoodCells, String("x")>>), Integer(3), Nil}

\* the event decoder calls GridLine::parse on the notification's parameters
ParseGridLine ==
    /\ ~parsed.done
    /\ parsed' = [done |-> TRUE, result |-> GridLineParse(params)]
    /\ UNCHANGED <<incomingVars, channelVars, writerVars, callVars, readerVars,
                   log, params, uiVars, lockVars, renderVars>>

InitGridLine ==
    /\ InitNeovim
    /\ params \in GridLineInputs
    /\ parsed = [done |-> FALSE]
    /\ InitUi
    /\ InitLock
    /\ InitRender

NextGridLine == ParseGridLine

SpecGridLine == InitGridLine /\ [][NextGridLine]_vars

\* the keys and values tried in the maps of a hl_attr_define entry
AttributeKeyVals == {String("foreground"), String("bold"), String("zzz"), Integer(1)}
AttributeValueVals == {Integer(7), Integer(8), Boolean(TRUE), String("x")}
AttributeMaps ==
    {Map(m) : m \in SeqsUpTo(AttributeKeyVals \X AttributeValueVals, MaxPairs)}
        \cup {Integer(3)}
InfoKeyVals == {String("kind"), String("id"), String("zzz"), Integer(1)}
InfoValueVals == {String("ui"), String("bogus"), Integer(3)}
InfoMaps ==
    {Map(m) : m \in SeqsUpTo(InfoKeyVals \X InfoValueVals, MaxPairs)} \cup {Integer(3)}
GoodAttributes == Map(<<<<String("bold"), Boolean(TRUE)>>>>)
GoodInfo == Map(<<<<String("kind"), String("ui")>>>>)
FullInfo ==
    Map(<<<<String("kind"), String("syntax")>>, <<String("ui_name"), String("Normal")>>,
          <<String("hi_name"), String("Normal")>>, <<String("id"), Integer(3)>>>>)
InfoLists ==
    {Array(<<m>>) : m \in InfoMaps}
        \cup {Array(<<GoodInfo, m>>) : m \in InfoMaps}
        \cup {Array(<<m, GoodInfo>>) : m \in InfoMaps}
        \cup {Array(<<>>), Integer(3)}
GoodHlAttr == Array(<<Integer(1), GoodAttributes, GoodAttributes, Array(<<GoodInfo>>)>>)

\* entries of a hl_attr_define event: every choice of one of the two
\* attribute maps and of the info list, every shorter array, an id that is no
\* number, a trailing extra element, and a value that is no array
HlAttrInputs ==
    {Array(<<Integer(1), m, GoodAttributes, Array(<<GoodInfo>>)>>) : m \in AttributeMaps}
      \cup {Array(<<Integer(2), GoodAttributes, m, Array(<<GoodInfo>>)>>) : m \in AttributeMaps}
      \cup {Array(<<Integer(3), GoodAttributes, GoodAttributes, l>>) : l \in InfoLists}
      \cup {Array(SubSeq(GoodHlAttr.a, 1, k)) : k \in 0..3}
      \cup {Array(<<String("x"), GoodAttributes, GoodAttributes, Array(<<GoodInfo>>)>>),
            Array(GoodHlAttr.a \o <<Nil>>), Integer(3)}

\* an entry with a key unknown to Attributes and a key unknown to Info
UnknownKeysHlAttr ==
    Array(<<Integer(5),
            Map(<<<<String("zzz"), String("x")>>, <<String("bold"), Boolean(TRUE)>>>>),
            GoodAttributes,
            Array(<<Map(<<<<String("zzz"), Integer(3)>>, <<String("kind"), String("ui")>>>>)>>)>>)

\* an entry with a wrong-typed value in its cterm map and an unknown kind
TwoFaultsHlAttr ==
    Array(<<Integer(6), GoodAttributes, Map(<<<<String("foreground"), String("x")>>>>),
            Array(<<Map(<<<<String("kind"), String("bogus")>>>>)>>)>>)

\* an entry whose maps give known keys twice, with different values
DuplicateKeysHlAttr ==
    Array(<<Integer(7),
            Map(<<<<String("bold"), Boolean(TRUE)>>, <<String("blend"), Integer(7)>>,
                  <<String("bold"), Boolean(FALSE)>>, <<String("blend"), Integer(8)>>>>),
            GoodAttributes,
            Array(<<Map(<<<<String("kind"), String("ui")>>, <<String("id"), Integer(3)>>,
                          <<String("hi_name"), String("Normal")>>,
                          <<String("id"), Integer(4)>>,
                          <<String("hi_name"), String("Visual")>>,
                          <<String("kind"), String("syntax")>>>>)>>)>>)

\* the entries whose place in the event is varied
FewHlAttrs ==
    {GoodHlAttr, UnknownKeysHlAttr, TwoFaultsHlAttr, DuplicateKeysHlAttr,
     Array(<<Integer(2), Map(<<>>), Map(<<>>),
             Array(<<FullInfo, Map(<<<<String("kind"), String("terminal")>>>>)>>)>>),
     Array(<<Integer(3), GoodAttributes, GoodAttributes,
             Array(<<Map(<<<<String("kind"), String("bogus")>>>>)>>)>>),
     Array(<<Integer(4), Map(<<<<String("bold"), Integer(7)>>>>), GoodAttributes,
             Array(<<GoodInfo>>)>>),
     Integer(3)}

\* parameter lists of hl_attr_define events
HlAttrDefineInputs ==
    {Array(<<e>>) : e \in HlAttrInputs}
        \cup {Array(l) : l \in SeqsUpTo(FewHlAttrs, MaxEntries)}

\* the event decoder calls HlAttrDefine::try_from on the entries of the event
ParseHlAttrDefine ==
    /\ ~parsed.done
    /\ parsed' = [done |-> TRUE, result |-> HlAttrDefineTryFrom(params.a)]
    /\ UNCHANGED <<incomingVars, channelVars, writerVars, callVars, readerVars,
                   log, params, uiVars, lockVars, renderVars>>

InitHlAttrDefine ==
    /\ InitNeovim
    /\ params \in HlAttrDefineInputs
    /\ parsed = [done |-> FALSE]
    /\ InitUi
    /\ InitLock
    /\ InitRender

NextHlAttrDefine == ParseHlAttrDefine

SpecHlAttrDefine == InitHlAttrDefine /\ [][NextHlAttrDefine]_vars

\* ------------------------------------- Incoming under the protocol discipline
\* the callers keep the discipline of the NOTE above Incoming, every
\* registered request is answered in the end, and the writer thread runs
LiveRegister(m) == RegisterKeepsOrder(m) /\ push_request(m)
LiveRespond(m) == RespondKeepsOrder(m) /\ push_response(m)

NextLive ==
    \/ \E m \in MsgIds : LiveRegister(m)
    \/ \E m \in MsgIds : LiveRespond(m)
    \/ WriterWrite

SpecLive ==
    Init /\ [][NextLive]_vars /\ \A m \in MsgIds : WF_vars(LiveRespond(m))

\* ------------------------------------------------------------ claim helpers
Reverse(s) == [i \in 1..Len(s) |-> s[Len(s) + 1 - i]]
IsPrefix(s, t) == Len(s) <= Len(t) /\ SubSeq(t, 1, Len(s)) = s
IsResponse(msg) == msg.kind = "Response"
MsgidOf(msg) == msg.msgid
\* msgids of the responses emitted on the channel so far, in order
Emitted == SeqMap(MsgidOf, SelectSeq(sent, IsResponse))
RECURSIVE SeqToBag(_)
SeqToBag(s) == IF s = <<>> THEN EmptyBag ELSE SetToBag({Head(s)}) (+) SeqToBag(Tail(s))
AllAnswered == \A i \in 1..Len(registered) : BagIn(registered[i], arrived)
\* a step that is one call of Incoming::push_response
IsPushResponseStep == BagCardinality(arrived') = BagCardinality(arrived) + 1

\* C1: N requests registered with strictly increasing msgids before any
\* response, then one response per request in any arrival order: the responses
\* emitted so far are always an initial part of the reverse registration order,
\* and once every request has its response the emitted sequence is exactly the
\* reverse registration order (each once, none missing), stack and buffer empty.
C1_ReverseOrderRelease ==
    (inOrder /\ ~lateReg) =>
        /\ IsPrefix(Emitted, Reverse(registered))
        /\ AllAnswered =>
              /\ Emitted = Reverse(registered)
              /\ requests = <<>>
              /\ responses = EmptyBag

\* three requests, answered oldest first, all released by the last arrival
C1_Witness ==
    /\ inOrder /\ ~lateReg /\ AllAnswered
    /\ registered = <<1, 2, 3>>
    /\ lastOp.sent = <<3, 2, 1>>
    /\ Emitted = <<3, 2, 1>>

\* what one push_response call does in the two scenarios of C2
C2_Scenarios ==
    (IsPushResponseStep /\ registered = <<1, 2, 3>> /\ ~lateReg /\ inOrder') =>
        LET m == lastOp'.msgid
            e == lastOp'.sent
        IN \* arrival order 3, 2, 1: every call emits the response it was given
           /\ (responses = EmptyBag) => (e = <<m>> <=> m = requests[Len(requests)])
           /\ (responses = EmptyBag /\ m = requests[Len(requests)]) => e = <<m>>
           \* arrival order 1, 2, 3: nothing, nothing, then 3, 2, 1 in one call
           /\ (requests = <<1, 2, 3>> /\ responses = EmptyBag /\ m = 1) => e = <<>>
           /\ (requests = <<1, 2, 3>> /\ responses = SetToBag({1}) /\ m = 2) => e = <<>>
           /\ (requests = <<1, 2, 3>> /\ responses = SetToBag({1, 2}) /\ m = 3)
                 => e = <<3, 2, 1>>

EmitsIffTop ==
    (lastOp'.sent # <<>>) <=>
        (requests # <<>> /\ lastOp'.msgid = requests[Len(requests)])

\* C2 as stated: the two scenarios, and in every push_response call something
\* is emitted iff the arriving msgid equals the current stack top.
C2_Original ==
    [][IsPushResponseStep => (C2_Scenarios /\ EmitsIffTop)]_vars

\* C2 (amended): the two scenarios, and in every push_response call that keeps
\* the discipline (request msgids registered in strictly increasing order, the
\* response answering a registered request not answered before) something is
\* emitted iff the arriving msgid equals the current stack top.
C2_EmitIffTopInOrder ==
    [][IsPushResponseStep => (C2_Scenarios /\ (inOrder' => EmitsIffTop))]_vars

\* the cascade: 1 and 2 are buffered and the arrival of 3 has released all three
C2_Witness ==
    /\ registered = <<1, 2, 3>> /\ inOrder /\ ~lateReg
    /\ lastOp = [op |-> "push_response", msgid |-> 3, sent |-> <<3, 2, 1>>]
    /\ requests = <<>>

\* no releasable response is left at the head of the buffer
Quiescent(reqs, heap) ==
    ~(/\ reqs # <<>>
      /\ heap # EmptyBag
      /\ \E x \in BagToSet(heap) :
            /\ \A y \in BagToSet(heap) : y <= x
            /\ x = reqs[Len(reqs)])

\* C3: every response emitted by a push_response call equals the stack top at
\* the moment of its emission (the i-th emission answers the i-th entry from
\* the top of the stack as it was on entry), each emission removes exactly
\* that stack entry and one buffer entry, the call goes on until the rule
\* fails, and no other step emits a response.
C3_ReleaseOnlyAtTop ==
    [][ LET e == lastOp'.sent
            n == Len(e)
        IN IF IsPushResponseStep
           THEN /\ n <= Len(requests)
                /\ \A i \in 1..n : e[i] = requests[Len(requests) + 1 - i]
                /\ requests' = SubSeq(requests, 1, Len(requests) - n)
                /\ responses' (+) SeqToBag(e) = responses (+) SetToBag({lastOp'.msgid})
                /\ sent' = sent \o SeqMap(Response, e)
                /\ Quiescent(requests', responses')
           ELSE SelectSeq(sent', IsResponse) = SelectSeq(sent, IsResponse)
      ]_vars

\* a call that released two responses, the second from the buffer
C3_Witness ==
    /\ lastOp.op = "push_response"
    /\ Len(lastOp.sent) = 2
    /\ requests # <<>>
    /\ responses # EmptyBag

\* the release rule of one push_response call, with the buffer's head chosen
\* by Before: the i-th emission is the head of what is buffered at that moment
\* and equals the stack top at that moment, and afterwards the head differs
\* from the top (or stack or buffer is empty)
RECURSIVE HeadRule(_, _, _, _, _)
HeadRule(Before(_, _), reqs, heap, e, reqsAfter) ==
    LET IsHead(x) == BagIn(x, heap) /\ \A y \in BagToSet(heap) : Before(x, y)
    IN IF e = <<>>
       THEN /\ reqsAfter = reqs
            /\ ~(reqs # <<>> /\ heap # EmptyBag /\ IsHead(reqs[Len(reqs)]))
       ELSE /\ reqs # <<>>
            /\ IsHead(Head(e))
            /\ Head(e) = reqs[Len(reqs)]
            /\ HeadRule(Before, SubSeq(reqs, 1, Len(reqs) - 1),
                        heap (-) SetToBag({Head(e)}), Tail(e), reqsAfter)

Smaller(x, y) == x <= y
Greater(x, y) == x >= y

\* C5 as stated: push_response inserts the response and then releases while
\* the buffer's MINIMUM msgid equals the stack top (looked at only on calls
\* that keep the discipline).
C5_Original ==
    [][(IsPushResponseStep /\ inOrder') =>
          HeadRule(Smaller, requests, responses (+) SetToBag({lastOp'.msgid}),
                   lastOp'.sent, requests')]_vars

\* C5 (amended): push_response inserts the response and then releases while
\* the buffer's MAXIMUM msgid equals the stack top, popping both and emitting.
C5_ReleaseWhileMaxEqualsTop ==
    [][IsPushResponseStep =>
          /\ HeadRule(Greater, requests, responses (+) SetToBag({lastOp'.msgid}),
                      lastOp'.sent, requests')
          /\ responses' (+) SeqToBag(lastOp'.sent)
                = responses (+) SetToBag({lastOp'.msgid})]_vars

\* the arriving response is the maximum of a buffer that also holds a smaller
\* one, and it was released
C5_Witness ==
    /\ lastOp.op = "push_response"
    /\ lastOp.sent = <<lastOp.msgid>>
    /\ \E x \in BagToSet(responses) : x < lastOp.msgid

IsRegistered(m) == \E i \in 1..Len(registered) : registered[i] = m
IsEmitted(m) == \E i \in 1..Len(Emitted) : Emitted[i] = m

\* C4: with request msgids registered in strictly increasing order and every
\* registered request answered exactly once after its registration (in any
\* interleaving with further registrations), every response is eventually
\* emitted, and a response stays buffered only while a newer request is still
\* pending without its response.
C4_EventualRelease ==
    /\ [](\A m \in MsgIds :
            BagIn(m, responses) =>
                \E j \in 1..Len(requests) :
                    requests[j] > m /\ ~BagIn(requests[j], arrived))
    /\ \A m \in MsgIds : IsRegistered(m) ~> IsEmitted(m)

\* a response buffered behind a newer request registered after another
\* response had already arrived, and released by the newer one's response
C4_Witness ==
    /\ lateReg
    /\ Len(lastOp.sent) >= 2
    /\ AllAnswered
    /\ responses = EmptyBag

\* ------------------------------------------------------- claims on the session
IsRequest(msg) == msg.kind = "Request"
\* msgids of the requests accepted by the channel so far, in order
RequestsOut == SeqMap(MsgidOf, SelectSeq(sent, IsRequest))
\* a step in which some call returns
IsCallReturnStep == Len(returned') = Len(returned) + 1
\* a step of Neovim::call
IsCallStep == callPc' # callPc
\* a step in which the reader decodes a Response
IsReaderResponseStep == decoded' = decoded + 1 /\ lastRead'.kind = "Response"
OnStack(m) == \E j \in 1..Len(requests) : requests[j] = m

C7_UniqueMsgids ==
    /\ \A k \in 1..Len(drawn) : drawn[k] = k - 1
    /\ next_msgid = Len(drawn)
    /\ \A i, j \in 1..Len(returned) :
          i # j => returned[i].msgid # returned[j].msgid
    /\ \A i \in 1..Len(returned) : returned[i].msgid < next_msgid

\* two calls have returned, the second after the writer had gone, its
\* enqueue failing
C7_Witness ==
    /\ Len(returned) = 2
    /\ ~rxAlive
    /\ log.error >= 1
    /\ Len(RequestsOut) = 1
    /\ returned[1].caller # returned[2].caller

\* C8 as stated: requests appear on the outgoing queue in strictly
\* increasing msgid order.
C8_Original ==
    \A i, j \in 1..Len(RequestsOut) : i < j => RequestsOut[i] < RequestsOut[j]

CallerOf(m) == (CHOOSE r \in {returned[i] : i \in 1..Len(returned)} : r.msgid = m).caller

\* C8 (amended): every request on the outgoing queue carries a msgid drawn
\* from the counter, no msgid appears twice, and the requests of one calling
\* thread appear in increasing msgid order; requests of different threads
\* may appear in either order.
C8_PerCallerOrder ==
    /\ \A i \in 1..Len(RequestsOut) :
          /\ \E k \in 1..Len(drawn) : drawn[k] = RequestsOut[i]
          /\ \E k \in 1..Len(returned) : returned[k].msgid = RequestsOut[i]
    /\ \A i, j \in 1..Len(RequestsOut) :
          i < j =>
            /\ RequestsOut[i] # RequestsOut[j]
            /\ CallerOf(RequestsOut[i]) = CallerOf(RequestsOut[j])
                  => RequestsOut[i] < RequestsOut[j]

\* two threads have each enqueued a request, the later draw first
C8_Witness ==
    /\ RequestsOut = <<1, 0>>
    /\ CallerOf(0) # CallerOf(1)

WasIssued(m) == \E k \in 1..Len(drawn) : drawn[k] = m

RegisteredIncreasing ==
    \A i, j \in 1..Len(registered) : i < j => registered[i] < registered[j]
\* no msgid has been given to push_response twice
ArrivedOnce(bag) == \A x \in BagToSet(bag) : CopiesIn(x, bag) = 1

\* C11: after a response has been handed to push_response whose msgid is
\* neither the stack top nor the id of any pending request, the session goes
\* on: a response that then arrives for the request on top of the stack is
\* released by that call (requests registered in increasing msgid order, no
\* msgid answered twice), and the unmatched response is never emitted.
C11_UnmatchedDoesNotStop ==
    [][(IsPushResponseStep /\ RegisteredIncreasing /\ ArrivedOnce(arrived')) =>
          LET m == lastOp'.msgid
              e == lastOp'.sent
          IN /\ (unmatched # {} /\ requests # <<>> /\ m = requests[Len(requests)])
                   => (e # <<>> /\ e[1] = m)
             /\ \A i \in 1..Len(e) : e[i] \notin unmatched]_vars

\* ------------------------------------------------- claims on the reader thread
\* a step in which decode returns an error
IsDecodeFailStep == lastRead' # lastRead /\ lastRead'.kind = "Error"

\* C12: a decode failure (EOF or any other) makes the reader call
\* handle_shutdown once and return; handle_shutdown is called at most once in
\* a run, after it no handle_request or handle_notification is called and
\* nothing more is decoded, and no step in which decoding succeeds or a
\* request is handled calls handle_shutdown.
C12_ShutdownOnceThenReturn ==
    /\ [](handled.shutdown <= 1)
    /\ [](handled.shutdown = 1 <=> readerPc = "exited")
    /\ [][ /\ IsDecodeFailStep =>
                /\ handled'.shutdown = handled.shutdown + 1
                /\ readerPc' = "exited"
           /\ handled.shutdown >= 1 =>
                /\ handled' = handled
                /\ decoded' = decoded
                /\ lastRead' = lastRead
           /\ ~IsDecodeFailStep => handled'.shutdown = handled.shutdown
         ]_vars

\* a request and a notification were handled, then decoding failed: the
\* reader called handle_shutdown and returned, the application answering after
C12_Witness ==
    /\ handled = [request |-> 1, notification |-> 1, shutdown |-> 1]
    /\ readerPc = "exited"
    /\ lastRead.kind = "Error"
    /\ lastOp.op = "push_response"

C18_EofSilentOthersLogged ==
    [][IsDecodeFailStep =>
          LET e == lastRead'.error
              eof == e \in {"InvalidMarkerRead:UnexpectedEof",
                            "InvalidDataRead:UnexpectedEof"}
          IN /\ e \in DecodeErrors
             /\ log'.error = (IF eof THEN log.error ELSE log.error + 1)
             /\ log'.info = log.info
             /\ handled'.shutdown = handled.shutdown + 1
             /\ readerPc' = "exited"]_vars

\* EOF while reading data after an error Response was logged: no second
\* error logged, shutdown called
C18_Witness ==
    /\ lastRead = [kind |-> "Error", msgid |-> 0,
                   error |-> "InvalidDataRead:UnexpectedEof"]
    /\ log = [error |-> 1, info |-> 0]
    /\ decoded = 1
    /\ handled.shutdown = 1

\* ------------------------------------------------- claims on the writer thread
\* C14: the writer writes the messages to stdin in exactly the order the
\* channel accepted them, requests of call and responses released by
\* push_response alike: every write appends the one oldest queued message
\* whole and takes it off the queue, so stdin is always an initial part of
\* the sequence of accepted messages (each at most once, none out of turn),
\* and while the writer runs stdin followed by the queue is that sequence.
C14_WritesInQueueOrder ==
    /\ [](IsPrefix(stdin, sent))
    /\ [](writerPc = "running" => stdin \o queue = sent)
    /\ [][stdin' # stdin =>
            /\ queue # <<>>
            /\ stdin' = Append(stdin, Head(queue))
            /\ queue' = Tail(queue)]_vars

\* a request of call written between two released responses, the newer
\* request's response first
C14_Witness ==
    /\ Len(stdin) = 3
    /\ stdin = sent
    /\ IsResponse(stdin[1]) /\ IsRequest(stdin[2]) /\ IsResponse(stdin[3])
    /\ stdin[1].msgid > stdin[3].msgid

\* C15: the writer terminates only when rx.recv fails (every Sender dropped
\* and nothing left in the channel) or when a write failed, and in those two
\* cases it does: a message leaves the queue either written, the writer
\* going on, or unwritten, the writer exiting; once every Sender is dropped
\* and the channel is empty the writer can only exit. After it has exited
\* nothing more is written, and no step of the writer calls a handler method.
C15_WriterTermination ==
    /\ [][ /\ (writerPc = "running" /\ writerPc' = "exited") =>
                /\ (queue # <<>> \/ ~txAlive)
                /\ stdin' = stdin
           /\ Len(queue') < Len(queue) =>
                \/ /\ stdin' = Append(stdin, Head(queue))
                   /\ queue' = Tail(queue)
                   /\ writerPc' = "running"
                \/ /\ stdin' = stdin
                   /\ writerPc' = "exited"
           /\ writerPc = "exited" => (stdin' = stdin /\ writerPc' = "exited")
           /\ (writerPc' # writerPc \/ stdin' # stdin) => handled' = handled
         ]_vars
    /\ []((writerPc = "running" /\ ~txAlive /\ queue = <<>>) =>
            (ENABLED WriterClose /\ ~ENABLED WriterWrite /\ ~ENABLED WriterFail))

\* a write failed with a later message queued behind it: the writer exited,
\* one message written, two accepted and never written
C15_Witness ==
    /\ writerPc = "exited"
    /\ txAlive
    /\ Len(stdin) = 1
    /\ Len(sent) = 3
    /\ queue = <<>>

\* C16: call never waits: a call that has drawn its msgid can always complete
\* and an idle thread holding the handle can always start one (up to the
\* bound on calls), whatever the writer and the reader have done; when the
\* writer has exited the send error is logged once, nothing is sent, and the
\* call still returns the msgid it drew, the counter having advanced past it.
C16_CallNeverBlocks ==
    /\ [](\A c \in Callers :
            /\ callPc[c] = "send" => ENABLED CallSend(c)
            /\ (callPc[c] = "idle" /\ txAlive /\ Len(drawn) < MaxCalls)
                  => ENABLED CallDraw(c))
    /\ [][IsCallReturnStep =>
            LET r == returned'[Len(returned')]
            IN /\ callPc[r.caller] = "send"
               /\ callPc'[r.caller] = "idle"
               /\ r.msgid = callId[r.caller]
               /\ r.msgid < next_msgid'
               /\ IF rxAlive
                  THEN log' = log /\ sent' = Append(sent, Request(r.msgid))
                  ELSE /\ log' = [log EXCEPT !.error = @ + 1]
                       /\ sent' = sent /\ queue' = queue]_vars

\* the writer exited on a failed write while a second call had drawn its
\* msgid; that call then returned msgid 1 with the error logged, the reader
\* having decoded nothing
C16_Witness ==
    /\ writerPc = "exited"
    /\ decoded = 0
    /\ \A c \in Callers : callPc[c] = "idle"
    /\ Len(returned) = 2
    /\ returned[2].msgid = 1
    /\ next_msgid = 2
    /\ sent = <<Request(0)>>
    /\ log.error = 1

\* some step in which the reader decodes (a message or a failure) is possible
CanDecode ==
    \/ ENABLED (\E m \in MsgIds : ReaderRequest(m))
    \/ ENABLED (\E m \in ReplyIds, err \in {"Nil", "Err"} : ReaderResponse(m, err))
    \/ ENABLED ReaderNotification
    \/ ENABLED (\E e \in DecodeErrors : ReaderFail(e))

\* C17 as stated: the reader can decode message k+1 before the handler has
\* finished processing message k.
C17_Original ==
    (readerPc = "handle_request" /\ decoded < MaxInbound) => CanDecode

\* C17 (amended): the handler runs on the reader thread: while
\* handle_request is processing message k no decode step is possible, the
\* only step of the reader is the return of the handler, and every request
\* decoded so far has been handled except the one being handled; when no
\* handler call is in progress the reader can decode, whatever the
\* application has done.
C17_HandlerRunsOnReader ==
    /\ readerPc = "handle_request" => (~CanDecode /\ ENABLED ReaderHandleRequest)
    /\ Len(registered) =
          handled.request + (IF readerPc = "handle_request" THEN 1 ELSE 0)
    /\ (readerPc = "decode" /\ decoded < MaxInbound) => CanDecode

\* the handler is processing the first inbound request, its msgid on the
\* stack, while the remote may send a further message
C17_Witness ==
    /\ readerPc = "handle_request"
    /\ decoded = 1
    /\ decoded < MaxInbound
    /\ handled.request = 0
    /\ requests = <<lastRead.msgid>>

\* ------------------------------------------------ claims on the event parsers
\* the parameter array of the example in the specification
GridLineExample == Array(<<Integer(1), Integer(0), Integer(0), GoodCells>>)
IsU64(value) == value.t = "Int" /\ value.n >= 0

\* C19: GridLine::parse on [1, 0, 0, [["a", 5, 2]]] gives grid 1, row 0,
\* col_start 0 and the one cell "a", Some(5), Some(2); and whenever it
\* succeeds the result's grid, row, col_start are the values at positions
\* 1, 2, 3, its cells are as many as the arrays at position 4 and in their
\* order, each with the text at position 1 of its array, and an hl_id or
\* repeat that is present is the value at position 2 or 3 of that array.
C19_GridLineFieldOrder ==
    parsed.done =>
        /\ params = GridLineExample =>
              parsed.result =
                  Some([grid |-> 1, row |-> 0, col_start |-> 0,
                        cells |-> <<[text |-> "a", hl_id |-> Some(5),
                                     repeat |-> Some(2)]>>])
        /\ parsed.result.some =>
              LET r == parsed.result.val
                  p == params.a
              IN /\ Len(p) >= 4
                 /\ p[1] = Integer(r.grid)
                 /\ p[2] = Integer(r.row)
                 /\ p[3] = Integer(r.col_start)
                 /\ p[4].t = "Arr"
                 /\ Len(r.cells) = Len(p[4].a)
                 /\ \A i \in 1..Len(r.cells) :
                       LET c == p[4].a[i].a
                           cell == r.cells[i]
                       IN /\ c[1] = String(cell.text)
                          /\ cell.hl_id.some =>
                                (Len(c) >= 2 /\ c[2] = Integer(cell.hl_id.val))
                          /\ cell.repeat.some =>
                                (Len(c) >= 3 /\ c[3] = Integer(cell.repeat.val))

\* the example has been parsed
C19_Witness ==
    /\ parsed.done
    /\ params = GridLineExample
    /\ parsed.result.some
    /\ parsed.result.val.cells[1].hl_id = Some(5)

\* a cell array the parser cannot make a cell of: no array, or no text
\* (nothing, or no string, at its first position)
Unparsable(c) == c.t # "Arr" \/ c.a = <<>> \/ c.a[1].t # "Str"
\* a cell array whose elements after the text, as far as present, are numbers
TailWellTyped(c) == \A k \in 2..Len(c.a) : k <= NumCellFields => IsU64(c.a[k])

\* C20: GridLine::parse fails when the parameter value is no array or has
\* fewer than four elements (grid, row, col_start or cells missing) and when
\* some cell is unparsable (that cell is not skipped); with the four
\* positions present and every cell having its text, and any hl_id and
\* repeat given being numbers, it succeeds, and then a cell's hl_id is absent
\* exactly when its array has no second element and its repeat exactly when
\* it has no third.
C20_OnlyOptionalMayBeMissing ==
    parsed.done =>
        /\ (params.t # "Arr") => ~parsed.result.some
        /\ (params.t = "Arr" /\ Len(params.a) < 4) => ~parsed.result.some
        /\ (params.t = "Arr" /\ Len(params.a) >= 4 /\ params.a[4].t = "Arr") =>
              LET cs == params.a[4].a
              IN /\ (\E i \in 1..Len(cs) : Unparsable(cs[i])) => ~parsed.result.some
                 /\ ( /\ \A k \in 1..3 : IsU64(params.a[k])
                      /\ \A i \in 1..Len(cs) : ~Unparsable(cs[i]) /\ TailWellTyped(cs[i]) )
                    => /\ parsed.result.some
                       /\ Len(parsed.result.val.cells) = Len(cs)
                       /\ \A i \in 1..Len(cs) :
                             LET cell == parsed.result.val.cells[i]
                             IN /\ ~cell.hl_id.some <=> Len(cs[i].a) < 2
                                /\ ~cell.repeat.some <=> Len(cs[i].a) < 3

\* two cells, the first without hl_id and repeat, the second without text:
\* the whole event failed
C20_Witness ==
    /\ parsed.done
    /\ params = Array(<<Integer(1), Integer(0), Integer(0),
                        Array(<<Array(<<String("a")>>), Array(<<>>)>>)>>)
    /\ ~parsed.result.some

\* a cell array with an element at the place of hl_id or repeat that is no number
WrongTypedOptional(c) ==
    /\ c.t = "Arr"
    /\ \E k \in 2..NumCellFields : k <= Len(c.a) /\ ~IsU64(c.a[k])

\* C21: a cell whose hl_id or repeat element is present but of the wrong type
\* makes GridLine::parse fail; the event is never decoded with that field
\* absent.
C21_WrongTypedOptionalAborts ==
    (/\ parsed.done
     /\ params.t = "Arr"
     /\ Len(params.a) >= 4
     /\ params.a[4].t = "Arr"
     /\ \E i \in 1..Len(params.a[4].a) : WrongTypedOptional(params.a[4].a[i]))
        => ~parsed.result.some


\* the keys Info::try_from knows
InfoKeys == {"kind", "ui_name", "hi_name", "id"}

\* a map without its pairs under string keys outside known
WithoutUnknownKeys(value, known) ==
    IF value.t = "Map"
    THEN Map(SelectSeq(value.m, LAMBDA pair : ~(pair[1].t = "Str" /\ pair[1].s \notin known)))
    ELSE value

\* an entry of hl_attr_define without the unknown keys of its maps
HlAttrWithoutUnknownKeys(entry) ==
    IF entry.t = "Arr"
    THEN Array([i \in 1..Len(entry.a) |->
                  IF i \in {2, 3} THEN WithoutUnknownKeys(entry.a[i], AttributeKeys)
                  ELSE IF i = 4 /\ entry.a[i].t = "Arr"
                  THEN Array([j \in 1..Len(entry.a[i].a) |->
                                WithoutUnknownKeys(entry.a[i].a[j], InfoKeys)])
                  ELSE entry.a[i]])
    ELSE entry

\* some map of the entry has a string key that is unknown
HasUnknownKey(entry) == HlAttrWithoutUnknownKeys(entry) # entry

\* the last value a map gives under a string key, None without the key
LastUnder(pairs, key) ==
    LET at == {i \in 1..Len(pairs) : pairs[i][1] = String(key)}
    IN IF at = {} THEN None
       ELSE Some(pairs[CHOOSE i \in at : \A j \in at : j <= i][2])

\* every pair of the map has a string key and, under a known key, a value of
\* the key's type
AttributePairsValid(pairs) ==
    \A i \in 1..Len(pairs) :
        /\ pairs[i][1].t = "Str"
        /\ pairs[i][1].s \in AttributeU64Keys => IsU64(pairs[i][2])
        /\ pairs[i][1].s \in AttributeBoolKeys => pairs[i][2].t = "Bool"

\* C22: an unknown string key in an Attributes or Info map does not change
\* what the decoder returns: the result is that of the same event with the
\* unknown keys removed, and a first entry whose rgb map is otherwise valid
\* decodes to the attributes its known keys give (the last value under each
\* key, None for an absent key).
C22_UnknownKeysIgnored ==
    parsed.done =>
        /\ parsed.result =
              HlAttrDefineTryFrom([i \in 1..Len(params.a) |->
                                     HlAttrWithoutUnknownKeys(params.a[i])])
        /\ (/\ parsed.result.ok
            /\ Len(params.a) >= 1
            /\ params.a[1].a[2].t = "Map")
              => LET pairs == params.a[1].a[2].m
                     rgb_attr == parsed.result.val.hl_attrs[1].rgb_attr
                 IN /\ AttributePairsValid(pairs)
                    /\ \A k \in AttributeU64Keys :
                          rgb_attr[k] = IF LastUnder(pairs, k).some
                                        THEN Some(LastUnder(pairs, k).val.n) ELSE None
                    /\ \A k \in AttributeBoolKeys :
                          rgb_attr[k] = IF LastUnder(pairs, k).some
                                        THEN Some(LastUnder(pairs, k).val.b) ELSE None
        /\ (/\ Len(params.a) = 1
            /\ params.a[1].t = "Arr"
            /\ Len(params.a[1].a) >= 4
            /\ params.a[1].a[1] = Integer(1)
            /\ params.a[1].a[2].t = "Map"
            /\ AttributePairsValid(params.a[1].a[2].m))
              => parsed.result.ok

\* an entry with an unknown key in its rgb map and in its info map was
\* decoded, and the known keys beside them were applied
C22_Witness ==
    /\ parsed.done
    /\ params = Array(<<UnknownKeysHlAttr>>)
    /\ HasUnknownKey(params.a[1])
    /\ parsed.result.ok
    /\ parsed.result.val.hl_attrs[1].rgb_attr["bold"] = Some(TRUE)
    /\ parsed.result.val.hl_attrs[1].rgb_attr["foreground"] = None
    /\ parsed.result.val.hl_attrs[1].info[1].kind = "Ui"

\* the strings Kind::try_from knows
KindNames == {"ui", "syntax", "terminal"}

\* a pair Info::try_from accepts: a string key and, under a known key, a value
\* of the key's type
InfoPairValid(pair) ==
    /\ pair[1].t = "Str"
    /\ pair[1].s = "kind" => (pair[2].t = "Str" /\ pair[2].s \in KindNames)
    /\ pair[1].s \in {"ui_name", "hi_name"} => pair[2].t = "Str"
    /\ pair[1].s = "id" => IsU64(pair[2])

\* a pair with the key "kind" and a string that names no kind
UnknownKindPair(pair) ==
    /\ pair[1] = String("kind")
    /\ pair[2].t = "Str"
    /\ pair[2].s \notin KindNames

InfoValid(value) ==
    /\ value.t = "Map"
    /\ \A i \in 1..Len(value.m) : InfoPairValid(value.m[i])
    /\ \E i \in 1..Len(value.m) : value.m[i][1] = String("kind")

AttributesValid(value) == value.t = "Map" /\ AttributePairsValid(value.m)

HlAttrValid(entry) ==
    /\ entry.t = "Arr"
    /\ Len(entry.a) >= 4
    /\ IsU64(entry.a[1])
    /\ AttributesValid(entry.a[2])
    /\ AttributesValid(entry.a[3])
    /\ entry.a[4].t = "Arr"
    /\ \A j \in 1..Len(entry.a[4].a) : InfoValid(entry.a[4].a[j])

\* pair p of info j of entry i is an unknown kind and everything the decoder
\* reads before it is valid
FirstFaultIsUnknownKind(entries, i, j, p) ==
    /\ \A h \in 1..(i - 1) : HlAttrValid(entries[h])
    /\ \A h \in 1..(j - 1) : InfoValid(entries[i].a[4].a[h])
    /\ \A h \in 1..(p - 1) : InfoPairValid(entries[i].a[4].a[j].m[h])
    /\ UnknownKindPair(entries[i].a[4].a[j].m[p])

\* the first thing wrong in the entries is an unknown kind
UnknownKindComesFirst(entries) ==
    \E i \in 1..Len(entries) :
        /\ entries[i].t = "Arr"
        /\ Len(entries[i].a) >= 4
        /\ IsU64(entries[i].a[1])
        /\ AttributesValid(entries[i].a[2])
        /\ AttributesValid(entries[i].a[3])
        /\ entries[i].a[4].t = "Arr"
        /\ \E j \in 1..Len(entries[i].a[4].a) :
              /\ entries[i].a[4].a[j].t = "Map"
              /\ \E p \in 1..Len(entries[i].a[4].a[j].m) :
                    FirstFaultIsUnknownKind(entries, i, j, p)

\* C23: when the first thing wrong in a hl_attr_define event is a "kind"
\* whose string names no kind, HlAttrDefine::try_from returns the error Kind,
\* not Info or HlAttr.
C23_UnknownKindError ==
    (parsed.done /\ UnknownKindComesFirst(params.a)) => parsed.result = Err("Kind")

\* the second entry of an event has the kind "bogus" behind a valid first
\* entry, and the event was rejected with the error Kind
C23_Witness ==
    /\ parsed.done
    /\ Len(params.a) = 2
    /\ params.a[1] = GoodHlAttr
    /\ UnknownKindComesFirst(params.a)
    /\ FirstFaultIsUnknownKind(params.a, 2, 1, 1)
    /\ parsed.result = Err("Kind")

\* C24: HlAttrDefine::try_from returns Ok exactly when every entry is valid,
\* then with one HlAttr per entry in the order of the entries; when an entry
\* fails the result is an error that carries no decoded entry.
C24_AllOrNothing ==
    parsed.done =>
        /\ parsed.result.ok <=> \A i \in 1..Len(params.a) : HlAttrValid(params.a[i])
        /\ parsed.result.ok =>
              /\ Len(parsed.result.val.hl_attrs) = Len(params.a)
              /\ \A i \in 1..Len(params.a) :
                    /\ Ok(parsed.result.val.hl_attrs[i]) = HlAttrTryFrom(params.a[i])
                    /\ parsed.result.val.hl_attrs[i].id = params.a[i].a[1].n
        /\ ~parsed.result.ok =>
              /\ DOMAIN parsed.result = {"ok", "err"}
              /\ parsed.result.err \in {"HlAttr", "Attributes", "Info", "Kind"}

\* an event of two entries, the first valid and the second not, was rejected
C24_Witness ==
    /\ parsed.done
    /\ Len(params.a) = 2
    /\ HlAttrValid(params.a[1])
    /\ ~HlAttrValid(params.a[2])
    /\ ~parsed.result.ok
    /\ DOMAIN parsed.result = {"ok", "err"}

\* ------------------------------------------------- claims on the event channel
\* the events of a sequence of batches, in order
RECURSIVE Flatten(_)
Flatten(batches) ==
    IF batches = <<>> THEN <<>> ELSE Head(batches) \o Flatten(Tail(batches))

\* C25: the events given to Ui::process, then those left of the batch the
\* consumer iterates over, then those of the batches waiting in the channel,
\* are the events of the batches sent, in send order and in the order of each
\* batch: the consumer loop drops, repeats and reorders nothing, and when it
\* ends it has processed every event sent.
C25_EventsInInsertionOrder ==
    /\ processed \o events \o Flatten(eventChannel) = Flatten(batchesSent)
    /\ uiTask = "finished" => processed = Flatten(batchesSent)

\* two batches of two different events each were sent and the consumer has
\* processed the four events
C25_Witness ==
    /\ batchesSent = <<(<<"grid_line", "hl_attr_define">>),
                       (<<"hl_attr_define", "grid_line">>)>>
    /\ processed = <<"grid_line", "hl_attr_define", "hl_attr_define", "grid_line">>
    /\ events = <<>>
    /\ eventChannel = <<>>

\* ------------------------------------------- claims on requests and responses
\* how often a msgid was given to push_request
TimesRegistered(m) == Cardinality({i \in 1..Len(registered) : registered[i] = m})

\* C26: when the reader is about to call handle_request, the msgid of the
\* request it read is the last one pushed, and every request read so far
\* whose response has not yet been given to push_response is on the stack:
\* a send_response made in reaction to a request finds its msgid pending.
C26_PushedBeforeHandled ==
    /\ readerPc = "handle_request" =>
          /\ registered # <<>>
          /\ Last(registered) = Some(lastRead.msgid)
          /\ Len(registered) = handled.request + 1
    /\ \A m \in MsgIds :
          TimesRegistered(m) > CopiesIn(m, arrived) => IsPending(requests, m)

\* while the reader is inside handle_request for a request, send_response
\* was called with that request's msgid, for the first time, and the response
\* was released
C26_Witness ==
    /\ readerPc = "handle_request"
    /\ lastOp.op = "push_response"
    /\ lastOp.msgid = lastRead.msgid
    /\ CopiesIn(lastRead.msgid, arrived) = 1
    /\ lastOp.sent = <<lastRead.msgid>>

\* push_response(m) would release a response: the stack is not empty and its
\* top is the largest msgid among the buffered responses and m
WouldRelease(m) ==
    /\ requests # <<>>
    /\ requests[Len(requests)] \in BagToSet(responses) \cup {m}
    /\ \A x \in BagToSet(responses) \cup {m} : x <= requests[Len(requests)]

\* C27: with the receiver of the outgoing queue gone, a send_response that
\* would release a response panics in push_response and poisons the lock,
\* nothing reaching the queue; on a poisoned lock the reader panics at its
\* next Request without pushing the msgid and without calling handle_request
\* or handle_shutdown, and every send_response panics before it touches
\* Incoming. The lock is poisoned in no other way.
C27_ReceiverGonePoisons ==
    /\ [][\A m \in MsgIds :
            (SendResponse(m) /\ ~poisoned /\ ~rxAlive /\ WouldRelease(m)) =>
                (poisoned' /\ queue' = queue /\ sent' = sent)]_vars
    /\ [][\A m \in MsgIds :
            (ReaderRequest(m) /\ poisoned) =>
                (/\ readerPc' = "panicked"
                 /\ handled' = handled
                 /\ requests' = requests)]_vars
    /\ [][\A m \in MsgIds :
            (SendResponse(m) /\ poisoned) =>
                (/\ lastOp'.op = "write().unwrap() panicked"
                 /\ UNCHANGED <<requests, responses, queue, sent, poisoned>>)]_vars
    /\ [][readerPc' = "panicked" => (poisoned /\ handled'.shutdown = handled.shutdown)]_vars
    /\ [](poisoned => (~rxAlive /\ writerPc = "exited"))

\* the writer thread has exited, a send_response has poisoned the lock, the
\* reader has panicked at a Request without a shutdown call, and a later
\* send_response has panicked at the lock
C27_Witness ==
    /\ writerPc = "exited"
    /\ ~rxAlive
    /\ poisoned
    /\ readerPc = "panicked"
    /\ lastRead.kind = "Request"
    /\ handled.shutdown = 0
    /\ lastOp.op = "write().unwrap() panicked"

\* the books of Incoming balance: the responses pushed are those in the
\* buffer together with those emitted, each once; the stack holds one msgid
\* per push_request call less one per emission, the buffer one response per
\* push_response call less one per emission
Conserved ==
    /\ responses (+) SeqToBag(Emitted) = arrived
    /\ Len(requests) = Len(registered) - Len(Emitted)
    /\ BagCardinality(responses) = BagCardinality(arrived) - Len(Emitted)

C29_Original == Quiescent(requests, responses)

\* C29: when the last call on Incoming was a push_response that returned,
\* nothing can be released.
C29_QuiescentAfterPushResponse ==
    lastOp.op = "push_response" => Quiescent(requests, responses)

\* push_response has released a response and returned with a pending request
\* and a buffered response left that do not match
C29_Witness ==
    /\ lastOp.op = "push_response"
    /\ lastOp.sent # <<>>
    /\ requests # <<>>
    /\ responses # EmptyBag
    /\ Quiescent(requests, responses)

\* a step that is one call of Incoming::push_request
IsPushRequestStep == Len(registered') = Len(registered) + 1

\* C30: a push_request call appends its msgid to the stack and changes
\* nothing else of Incoming and nothing of the outgoing queue, whatever the
\* buffer holds; a response is emitted only by a push_response call.
C30_PushRequestOnlyAppends ==
    [][ /\ IsPushRequestStep =>
              /\ requests' = Append(requests, registered'[Len(registered')])
              /\ responses' = responses
              /\ queue' = queue
              /\ sent' = sent
        /\ sent' # sent => IsPushResponseStep
      ]_vars

\* push_request has just pushed the msgid of the largest buffered response:
\* the response is still buffered and nothing was emitted
C30_Witness ==
    /\ lastOp.op = "push_request"
    /\ Last(requests) = Some(lastOp.msgid)
    /\ Peek(responses) = Some(lastOp.msgid)
    /\ ~Quiescent(requests, responses)
    /\ sent = <<>>

\* ------------------------------------------------- claims on the write lock
\* the threads that are between taking the lock on Incoming and dropping it
InsideLock ==
    {t \in Callers : sendPc[t] # "idle"}
        \cup (IF pushId # None THEN {ReaderThread} ELSE {})

\* the places in the log of what send_response call c did to Incoming
LogOf(c) == {i \in 1..Len(opLog) : opLog[i].call = c}

\* C31: at most one thread is inside the lock on Incoming and it is the
\* holder; in the order in which inserts, emissions and pushes took effect,
\* what one send_response call did (its insert, then its emissions) is one
\* unbroken run: no push_request and no step of another send_response call
\* lies between.
C31_CascadeAtomic ==
    /\ Cardinality(InsideLock) <= 1
    /\ \A t \in InsideLock : lockHolder = Some(t)
    /\ \A c \in 1..MaxResponses :
          \A i, j \in LogOf(c) : \A k \in i..j : k \in LogOf(c)
    /\ \A c \in 1..MaxResponses :
          \A i \in LogOf(c) :
              opLog[i].op = "insert" <=> \A j \in LogOf(c) : i <= j

\* a send_response call emitted two responses in a row, another call
\* emitted one, and a thread is inside the lock
C31_Witness ==
    /\ \E c, d \in 1..MaxResponses :
          /\ c # d
          /\ Cardinality({i \in LogOf(c) : opLog[i].op = "emit"}) >= 2
          /\ \E i \in LogOf(d) : opLog[i].op = "emit"
    /\ InsideLock # {}

\* ------------------------------------------ claims on hl_attr_define errors
\* the least number of a set of numbers
Least(S) == CHOOSE i \in S : \A j \in S : i <= j

\* the error a pair of an info map stands for, "none" for a pair that is
\* accepted
InfoPairFault(pair) ==
    IF pair[1].t # "Str" THEN "Info"
    ELSE IF pair[1].s = "kind"
    THEN IF pair[2].t = "Str" /\ pair[2].s \in KindNames THEN "none" ELSE "Kind"
    ELSE IF pair[1].s \in {"ui_name", "hi_name"}
    THEN IF pair[2].t = "Str" THEN "none" ELSE "Info"
    ELSE IF pair[1].s = "id"
    THEN IF IsU64(pair[2]) THEN "none" ELSE "Info"
    ELSE "none"

\* the error of the first pair of an info item that is not accepted; Info for
\* an item that is no map or has no kind
InfoFault(value) ==
    IF value.t # "Map" THEN "Info"
    ELSE LET bad == {p \in 1..Len(value.m) : InfoPairFault(value.m[p]) # "none"}
         IN IF bad # {} THEN InfoPairFault(value.m[Least(bad)])
            ELSE IF \A p \in 1..Len(value.m) : value.m[p][1] # String("kind") THEN "Info"
            ELSE "none"

\* the error of the first element of an entry that is not accepted, going
\* through id, rgb_attr, cterm_attr and the info items in this order
HlAttrFault(entry) ==
    IF entry.t # "Arr" THEN "HlAttr"
    ELSE IF Len(entry.a) < 1 \/ ~IsU64(entry.a[1]) THEN "HlAttr"
    ELSE IF Len(entry.a) < 2 THEN "HlAttr"
    ELSE IF ~AttributesValid(entry.a[2]) THEN "Attributes"
    ELSE IF Len(entry.a) < 3 THEN "HlAttr"
    ELSE IF ~AttributesValid(entry.a[3]) THEN "Attributes"
    ELSE IF Len(entry.a) < 4 THEN "HlAttr"
    ELSE IF entry.a[4].t # "Arr" THEN "HlAttr"
    ELSE LET infos == entry.a[4].a
             bad == {j \in 1..Len(infos) : InfoFault(infos[j]) # "none"}
         IN IF bad # {} THEN InfoFault(infos[Least(bad)]) ELSE "none"

\* the error of the first entry that is not accepted
FirstFault(entries) ==
    LET bad == {i \in 1..Len(entries) : HlAttrFault(entries[i]) # "none"}
    IN IF bad # {} THEN HlAttrFault(entries[Least(bad)]) ELSE "none"

\* C32: HlAttrDefine::try_from fails exactly when some element is not
\* accepted, and then with the error of the first such element in the order
\* entries, id, rgb_attr, cterm_attr, info items, pairs: HlAttr, Attributes,
\* Info or Kind as the element's place tells.
C32_FirstFailureNamed ==
    parsed.done =>
        /\ parsed.result.ok <=> FirstFault(params.a) = "none"
        /\ ~parsed.result.ok => parsed.result = Err(FirstFault(params.a))

\* an entry with a bad cterm map and, behind it, an unknown kind was
\* rejected with the error of the map
C32_Witness ==
    /\ parsed.done
    /\ params = Array(<<GoodHlAttr, TwoFaultsHlAttr>>)
    /\ ~AttributesValid(params.a[2].a[3])
    /\ InfoFault(params.a[2].a[4].a[1]) = "Kind"
    /\ parsed.result = Err("Attributes")

\* the entry is an array of four or more elements with a number as id
HlAttrHeadValid(entry) ==
    /\ entry.t = "Arr"
    /\ Len(entry.a) >= 4
    /\ IsU64(entry.a[1])

\* an info map with a key that is no string, a wrong-typed ui_name, hi_name
\* or id, or no kind at all
InfoInexact(value) ==
    /\ value.t = "Map"
    /\ \/ \E p \in 1..Len(value.m) : InfoPairFault(value.m[p]) = "Info"
       \/ \A p \in 1..Len(value.m) : value.m[p][1] # String("kind")

\* no pair with an unknown kind comes before the first pair of the map that
\* is not accepted for another reason
NoUnknownKindBefore(value) ==
    \A p \in 1..Len(value.m) :
        InfoPairFault(value.m[p]) = "Kind" =>
            \E q \in 1..(p - 1) : InfoPairFault(value.m[q]) = "Info"

\* the name of the kind a string stands for
KindOf(str) ==
    IF str = "ui" THEN "Ui" ELSE IF str = "syntax" THEN "Syntax" ELSE "Terminal"

\* in an event of one entry, an attribute map with a key that is no string or
\* a wrong-typed value under a known key gives the error Attributes; an
\* inexact info map behind valid ones gives the error Info, always or when no
\* unknown kind comes first; in a decoded entry every field of the rgb map
\* and of the first info holds the last value given under its key
KnownKeysExact(always) ==
    (parsed.done /\ Len(params.a) = 1 /\ HlAttrHeadValid(params.a[1])) =>
        LET a == params.a[1].a
        IN /\ (a[2].t = "Map" /\ ~AttributePairsValid(a[2].m))
                 => parsed.result = Err("Attributes")
           /\ (AttributesValid(a[2]) /\ a[3].t = "Map" /\ ~AttributePairsValid(a[3].m))
                 => parsed.result = Err("Attributes")
           /\ (AttributesValid(a[2]) /\ AttributesValid(a[3]) /\ a[4].t = "Arr")
                 => \A j \in 1..Len(a[4].a) :
                       (/\ \A h \in 1..(j - 1) : InfoValid(a[4].a[h])
                        /\ InfoInexact(a[4].a[j])
                        /\ always \/ NoUnknownKindBefore(a[4].a[j]))
                           => parsed.result = Err("Info")
           /\ parsed.result.ok =>
                 LET hl_attr == parsed.result.val.hl_attrs[1]
                 IN /\ \A k \in AttributeU64Keys :
                          hl_attr.rgb_attr[k] =
                              IF LastUnder(a[2].m, k).some
                              THEN Some(LastUnder(a[2].m, k).val.n) ELSE None
                    /\ \A k \in AttributeBoolKeys :
                          hl_attr.rgb_attr[k] =
                              IF LastUnder(a[2].m, k).some
                              THEN Some(LastUnder(a[2].m, k).val.b) ELSE None
                    /\ Len(a[4].a) >= 1 =>
                          LET pairs == a[4].a[1].m
                              info == hl_attr.info[1]
                          IN /\ info.kind = KindOf(LastUnder(pairs, "kind").val.s)
                             /\ info.id = IF LastUnder(pairs, "id").some
                                          THEN Some(LastUnder(pairs, "id").val.n) ELSE None
                             /\ info.hi_name = IF LastUnder(pairs, "hi_name").some
                                               THEN Some(LastUnder(pairs, "hi_name").val.s)
                                               ELSE None
                             /\ info.ui_name = IF LastUnder(pairs, "ui_name").some
                                               THEN Some(LastUnder(pairs, "ui_name").val.s)
                                               ELSE None

\* C33 as stated: an info map with a wrong-typed ui_name, hi_name or id, a
\* key that is no string, or no kind fails with Info.
C33_Original == KnownKeysExact(TRUE)

\* C33: known keys decode exactly and the last occurrence of a key wins; an
\* inexact info map fails with Info unless a pair with an unknown kind comes
\* before its first other fault, and then with Kind.
C33_KnownKeysExact ==
    /\ KnownKeysExact(FALSE)
    /\ (/\ parsed.done
        /\ Len(params.a) = 1
        /\ HlAttrHeadValid(params.a[1])
        /\ AttributesValid(params.a[1].a[2])
        /\ AttributesValid(params.a[1].a[3])
        /\ params.a[1].a[4].t = "Arr"
        /\ Len(params.a[1].a[4].a) >= 1
        /\ InfoInexact(params.a[1].a[4].a[1])
        /\ ~NoUnknownKindBefore(params.a[1].a[4].a[1]))
          => parsed.result = Err("Kind")

\* the entry with every key given twice was decoded with the later values
C33_Witness ==
    /\ parsed.done
    /\ params = Array(<<DuplicateKeysHlAttr>>)
    /\ parsed.result.ok
    /\ parsed.result.val.hl_attrs[1].rgb_attr["bold"] = Some(FALSE)
    /\ parsed.result.val.hl_attrs[1].rgb_attr["blend"] = Some(8)
    /\ parsed.result.val.hl_attrs[1].info[1].kind = "Syntax"
    /\ parsed.result.val.hl_attrs[1].info[1].id = Some(4)
    /\ parsed.result.val.hl_attrs[1].info[1].hi_name = Some("Visual")

\* ------------------------------------------------------------------ C34
\* C34: a ScrollingGrids always holds at least one part: after new and any
\* sequence of push, replace, finish_scroll and advance the queue is not
\* empty; its front part is the grid pushed or replaced last; finish_scroll
\* (called directly or by advance at t = 0) leaves exactly the front part; no
\* call of finish_scroll, advance, replace or size panics.
C34_NeverEmpty ==
    /\ Len(scrolling) >= 1
    /\ Head(scrolling).grid.n = gridsMade - 1
    /\ (~scrollOp.panicked /\ scrollOp.op \in {"new", "push", "replace"})
           => Head(scrolling) = GridPartNew(scrollOp.grid)
    /\ (scrollOp.op = "finish_scroll" \/ (scrollOp.op = "advance" /\ scrollOp.t = 0))
           => /\ ~scrollOp.panicked
              /\ scrolling = <<Head(scrollOp.before)>>
    /\ scrollOp.panicked => scrollOp.op = "push"
    /\ scrollOp.op = "size" => scrollOp.grid = scrolling[Len(scrolling)].grid

C34_Witness ==
    /\ scrollOp.op = "finish_scroll"
    /\ Len(scrollOp.before) = 3
    /\ scrollOp.before[3].grid # scrollOp.before[1].grid
    /\ scrolling = <<scrollOp.before[1]>>
    /\ scrolling[1].grid.n = gridsMade - 1

\* ------------------------------------------------------------------ C35
\* the offset push is to apply: the sign of the argument times the smaller of
\* its magnitude and the grid height
ClampedOffset(grid, offset) ==
    (IF offset > 0 THEN 1 ELSE -1) * MinOf(AbsOf(offset), grid.y)

\* the part of the queue before the push that holds the same grid as part
Older(part) ==
    {j \in DOMAIN scrollOp.before : scrollOp.before[j].grid = part.grid}

\* the claim about push, for pushes whose argument is in the given set
PushResult(offsets) ==
    (scrollOp.op = "push" /\ ~scrollOp.panicked /\ scrollOp.offset \in offsets) =>
        LET grid == scrollOp.grid
            applied == ClampedOffset(grid, scrollOp.offset)
            before == scrollOp.before
            older == Tail(scrolling)
        IN  /\ Head(scrolling) = [grid |-> grid, offset |-> 0, start |-> 0, end |-> grid.y]
            /\ AbsOf(applied) <= grid.y
            /\ scrollT = scrollOp.t + applied
            /\ \A i \in DOMAIN older :
                   /\ older[i].grid.y = grid.y
                   /\ older[i].start < older[i].end
                   /\ \E j \in Older(older[i]) :
                          older[i].offset = before[j].offset - applied
            /\ \A j \in DOMAIN before :
                   (\/ before[j].grid.y # grid.y
                    \/ /\ before[j].offset - applied >= 0
                       /\ before[j].offset - applied + before[j].grid.y <= grid.y)
                       => \A i \in DOMAIN older : older[i].grid # before[j].grid

\* C35: after push(grid, offset) the new grid is the front part with offset
\* 0, start 0 and end = grid height; the offset applied is the argument
\* clamped to magnitude at most the grid height and is subtracted from every
\* older part's offset; every older part that is kept has the height of the
\* new grid, and parts of another height or with no uncovered row are dropped.
C35_PushResult == PushResult(Offsets)

\* the same for every argument but i32::MIN
C35_PushResultAboveMin == PushResult(Offsets \ {I32Min})

\* ------------------------------------------------------------------ C36
\* C36: under any interleaving of the update thread (update_text) and render,
\* a render that draws uses a vertex buffer, a grid bind group and a vertex
\* count that were all written by the same update_text call.
C36_RenderConsistent ==
    (renderPc = "drawn" /\ frame.grid_render.some) =>
        /\ frame.vertex_buffer = frame.grid_render.val
        /\ frame.vertex_count = frame.grid_render.val

\* ------------------------------------------------------------------ C37
\* the cache indices given to Texture::new so far, in call order
Uploaded == Flatten(uploads)

\* C37: for a font cache that only grows by appending glyphs and is not
\* empty, after every get_read the number of textures equals the number of
\* cached glyphs and next_glyph_to_upload equals textures.len(); over any
\* sequence of cache growth and get_read calls no glyph is uploaded twice,
\* every glyph cached at a get_read has been uploaded after it, and texture i
\* is made of the data and the size of glyph i.
C37_TexturesFollowCache ==
    /\ [](/\ next_glyph_to_upload = Len(textures)
          /\ Uploaded = [i \in 1..Len(textures) |-> i]
          /\ Len(textures) <= Len(font_cache.data)
          /\ \A i \in DOMAIN textures :
                 textures[i] = TextureNew(font_cache.data[i], font_cache.info[i].size))
    /\ [][(GetRead /\ font_cache.data # <<>>) =>
              /\ fontRead'.outcome = "ok"
              /\ Len(textures') = Len(font_cache'.data)
              /\ next_glyph_to_upload' = Len(textures')
              /\ fontRead'.tex_count = Len(font_cache'.data)]_vars

C37_Witness ==
    /\ fontRead.outcome = "ok"
    /\ uploads = <<<<1>>, <<2, 3>>>>
    /\ Len(textures) = 3
    /\ textures[1] # textures[3]
    /\ next_glyph_to_upload = 3
====
